---- MODULE Spec2Model ----
(***************************************************************************)
(* State-machine model of xmcl-runtime's UserService                       *)
(* (src/xmcl-runtime/lib/services/UserService.ts): the user/session state, *)
(* the guarded public operations, the abort controllers and the            *)
(* persistence subscriber.                                                 *)
(*                                                                         *)
(* JavaScript runs one task at a time: an action below is the code that    *)
(* runs between two suspension points (an await on a provider, a lock or   *)
(* the disk).                                                              *)
(***************************************************************************)
EXTENDS Integers, Sequences, FiniteSets, TLC

\* ------------------------------------------------------------- bounds

\* Number of calls that can be in flight (or finished and not yet collected).
NumProcs == 2

\* Number of documents handed to writeFile that are tracked at once.
MaxWrites == 1

\* Number of subscriber runs waiting for ensureFile that are tracked at once.
MaxPending == 2

Procs == 1..NumProcs

\* Account ids a provider can hand out, and that callers pass as arguments.
UserIds == {"A", "B"}

\* Game profile ids: a provider's accounts own "p1"; "p2" is owned by nobody.
ProfileIds == {"p1", "p2"}

OwnedProfiles == {"p1"}

NoProc == 0

\* Number of legacy paths the file store is created with.
NumLegacy == 2

VARIABLES
  users,              \* UserState.users, in insertion order (Object.values order)
  selectedUser,       \* UserState.selectedUser.id
  clientToken,        \* UserState.clientToken
  yggdrasilServices,  \* UserState.yggdrasilServices (descriptors, display order)
  loginController,    \* owner of the live login AbortController, or NoProc
  refreshController,  \* owner of the live refresh AbortController, or NoProc
  setSkinController,  \* owner of the live setSkin AbortController, or NoProc
  accountSystems,     \* the registry: per service name, the registered system
  proc,               \* the calls in flight
  locks,              \* @Lock: per key, the queue of callers; its head runs
  pendingWrites,      \* subscriber runs waiting for ensureFile: what each holds
  writing,            \* serialized documents handed to writeFile
  file,               \* the file at the store's path (user.json)
  legacy,             \* the files at the store's legacy paths, in list order
  store,              \* the caller of the file store (the service's initializer,
                      \* or a direct caller): its call and its history
  instance,           \* InstanceModsState.instance
  modsWatcher,        \* InstanceModsService.modsWatcher: a watcher's index, or 0
  watchers,           \* the watchers created, in order: directory and open or closed
  path,               \* InstanceService.state.path
  mounts              \* the mount calls, in call order

sessionVars == <<users, selectedUser, clientToken, yggdrasilServices>>
controllerVars == <<loginController, refreshController, setSkinController>>
diskVars == <<pendingWrites, writing, file, legacy, store>>
modsVars == <<instance, modsWatcher, watchers, path, mounts>>
vars == <<users, selectedUser, clientToken, yggdrasilServices, loginController,
          refreshController, setSkinController, accountSystems, proc, locks,
          pendingWrites, writing, file, legacy, store,
          instance, modsWatcher, watchers, path, mounts>>

\* ------------------------------------------------------------ UserState

\* The service names callers and accounts use: two services, and a name that
\* every JavaScript object inherits a property for.
ServiceNames == {"microsoft", "offline", "constructor"}

\* The service an account id belongs to: the authService of its account.
ServiceOf(id) == IF id = "A" THEN "microsoft" ELSE "offline"

\* The accounts a provider returns for account id `id`.
ProviderAccounts(id) ==
  { [id |-> id, authService |-> ServiceOf(id), profiles |-> OwnedProfiles,
     selectedProfile |-> s] :
      s \in {""} \cup OwnedProfiles }

HasUser(us, id) == \E i \in DOMAIN us : us[i].id = id

UserOf(us, id) == us[CHOOSE i \in DOMAIN us : us[i].id = id]

UserKeys(us) == { us[i].id : i \in DOMAIN us }

\* UserState.user: users[selectedUser.id], or undefined.
HasCurrentUser == HasUser(users, selectedUser)

\* mutation userProfile: create or replace the entry under the account's id.
userProfile(us, acc) ==
  IF HasUser(us, acc.id)
    THEN [i \in DOMAIN us |-> IF us[i].id = acc.id THEN acc ELSE us[i]]
    ELSE Append(us, acc)

\* mutation userSelect: set the selected account id.
userSelect(sel, id) == id

\* mutation userProfileRemove: delete the entry ...
userProfileRemoveUsers(us, id) == SelectSeq(us, LAMBDA u : u.id # id)

\* ... and a selection that was the removed account becomes empty.
userProfileRemoveSelected(sel, id) == IF sel = id THEN "" ELSE sel

\* mutation userGameProfileSelect: set the account's selectedProfile.
userGameProfileSelect(us, userId, profileId) ==
  [i \in DOMAIN us |->
     IF us[i].id = userId THEN [us[i] EXCEPT !.selectedProfile = profileId]
     ELSE us[i]]

\* Urls of identity endpoints, and what a descriptor says besides its url.
Urls == {"u1", "u2"}

Metas == {"m1", "m2"}

\* The descriptor of an identity endpoint.
Endpoint(u, m) == [url |-> u, meta |-> m]

EndpointUrls(ygg) == { ygg[i].url : i \in DOMAIN ygg }

\* mutation userYggdrasilServicePut: the descriptor takes the place of the
\* entry with its url, or is added at the end.
userYggdrasilServicePut(ygg, api) ==
  IF api.url \in EndpointUrls(ygg)
    THEN [i \in DOMAIN ygg |-> IF ygg[i].url = api.url THEN api ELSE ygg[i]]
    ELSE Append(ygg, api)

\* mutation userYggdrasilServices: the list is replaced.
userYggdrasilServices(ygg, all) == all

\* ---------------------------------------------------------- persistence

\* The mutations the persistence subscriber listens to.
SubscribedMutations ==
  {"userProfile", "userProfileRemove", "userGameProfileSelect",
   "userYggdrasilServices", "userYggdrasilServicePut"}

\* The document the subscriber builds from the state.
UserData(us, sel, tok, ygg) ==
  [users |-> us, selectedUser |-> sel, clientToken |-> tok, yggdrasilServices |-> ygg]

\* Number of subscriber runs a step's mutations start.
Triggered(mutations) == Cardinality(mutations \cap SubscribedMutations)

Min(a, b) == IF a <= b THEN a ELSE b

\* A JSON object is the sequence of its members, in key order of insertion.
Member(k, v) == [key |-> k, value |-> v]

HasMember(obj, k) == \E i \in DOMAIN obj : obj[i].key = k

ValueOf(obj, k) == obj[CHOOSE i \in DOMAIN obj : obj[i].key = k].value

\* serializer.serialize: the JSON text of a document. users is an object
\* keyed by account id, selectedUser an object with the member id.
Serialize(doc) ==
  << Member("users", [i \in DOMAIN doc.users |-> Member(doc.users[i].id, doc.users[i])]),
     Member("selectedUser", << Member("id", doc.selectedUser) >>),
     Member("clientToken", doc.clientToken),
     Member("yggdrasilServices", doc.yggdrasilServices) >>

\* serializer.deserialize: an empty buffer decodes to the schema's defaults,
\* and so does every field the text does not have.
Deserialize(bytes) ==
  [users |-> IF HasMember(bytes, "users")
               THEN [i \in DOMAIN ValueOf(bytes, "users") |->
                       ValueOf(bytes, "users")[i].value]
               ELSE << >>,
   selectedUser |-> IF /\ HasMember(bytes, "selectedUser")
                       /\ HasMember(ValueOf(bytes, "selectedUser"), "id")
                      THEN ValueOf(ValueOf(bytes, "selectedUser"), "id")
                      ELSE "",
   clientToken |-> IF HasMember(bytes, "clientToken")
                     THEN ValueOf(bytes, "clientToken") ELSE "",
   yggdrasilServices |-> IF HasMember(bytes, "yggdrasilServices")
                           THEN ValueOf(bytes, "yggdrasilServices") ELSE << >>]

\* A path with no file, and a path with a file of the given content.
Missing == [exists |-> FALSE, bytes |-> << >>]

FileOf(bytes) == [exists |-> TRUE, bytes |-> bytes]

\* What a subscriber run holds in its userData: the state's users and
\* selectedUser objects, which the mutations change in place, the clientToken
\* string, and the yggdrasilServices array. The run holds the state's own
\* array (live) until the mutation userYggdrasilServices puts another array
\* in its place; from then on it holds the array that was replaced.
LiveData(tok) == [clientToken |-> tok, live |-> TRUE, yggdrasilServices |-> << >>]

\* The run's array is no longer the state's: it keeps the entries ygg.
Detach(run, ygg) ==
  IF run.live THEN [run EXCEPT !.live = FALSE, !.yggdrasilServices = ygg] ELSE run

\* The yggdrasilServices a run serializes.
HeldServices(run) == IF run.live THEN yggdrasilServices ELSE run.yggdrasilServices

\* The runs pending after a step committing `mutations`: the pending runs,
\* their arrays replaced if the step replaces the state's array, and one run
\* for the step if it commits a subscribed mutation (runs that hold the same
\* data serialize the same documents and are tracked as one).
PendingAfter(mutations) ==
  (IF "userYggdrasilServices" \in mutations
     THEN { Detach(run, yggdrasilServices) : run \in pendingWrites }
     ELSE pendingWrites)
  \cup (IF Triggered(mutations) > 0 THEN {LiveData(clientToken)} ELSE {})

\* A step committing `mutations` starts one subscriber run per subscribed one.
\* Of more than MaxPending runs, the step's own and MaxPending - 1 others
\* are tracked.
Tracked(mutations) ==
  { S \in SUBSET PendingAfter(mutations) :
      /\ Cardinality(S) = Min(Cardinality(PendingAfter(mutations)), MaxPending)
      /\ LiveData(clientToken) \in PendingAfter(mutations)
           => LiveData(clientToken) \in S }

Notify(mutations) ==
  /\ pendingWrites' \in Tracked(mutations)
  /\ UNCHANGED <<writing, file, legacy, store>>

\* ensureFile resolved for one of the pending runs, in any order: its
\* userData is serialized as it is now and handed to writeFile.
WriteSerialize ==
  \E run \in pendingWrites :
    /\ Len(writing) < MaxWrites
    /\ pendingWrites' = pendingWrites \ {run}
    /\ writing' = Append(writing, Serialize(UserData(users, selectedUser, run.clientToken,
                                                     HeldServices(run))))
    /\ UNCHANGED <<sessionVars, accountSystems, modsVars, controllerVars, proc, locks, file, legacy, store>>

\* writeFile resolved: the document is the file's content. Writes to one
\* path end in the order of the writeFile calls.
WriteDone ==
  /\ writing # << >>
  /\ file' = FileOf(Head(writing))
  /\ writing' = Tail(writing)
  /\ UNCHANGED <<sessionVars, accountSystems, modsVars, controllerVars, proc, locks, pendingWrites, legacy, store>>

\* ensureFile or serialize rejected for one of the pending runs: its write is
\* not made. The subscriber is an async function nobody awaits, so the
\* rejection reaches no caller.
WriteEnsureFails ==
  \E run \in pendingWrites :
    /\ pendingWrites' = pendingWrites \ {run}
    /\ UNCHANGED <<sessionVars, accountSystems, modsVars, controllerVars, proc, locks, writing, file,
                   legacy, store>>

\* A failed write that puts the state back to what the file holds.
WriteFileFailsRollsBack ==
  /\ writing # << >>
  /\ writing' = Tail(writing)
  /\ users' = Deserialize(file.bytes).users
  /\ UNCHANGED <<selectedUser, clientToken, yggdrasilServices, accountSystems, modsVars, controllerVars,
                 proc, locks, pendingWrites, file, legacy, store>>

\* writeFile rejected: the file keeps its content, the rejection reaches no
\* caller.
WriteFileFails ==
  /\ writing # << >>
  /\ writing' = Tail(writing)
  /\ UNCHANGED <<sessionVars, accountSystems, modsVars, controllerVars, proc, locks, pendingWrites, file,
                 legacy, store>>

\* ------------------------------------------------------- the file store

\* The documents a direct caller writes: no account or two, nothing or
\* account "B" selected, no endpoint or two.
Docs ==
  { UserData(us, sel, "token", ygg) :
      us \in {<< >>} \cup { <<a, b>> : a \in ProviderAccounts("A"),
                                       b \in ProviderAccounts("B") },
      sel \in {"", "B"},
      ygg \in {<< >>, <<Endpoint("u1", "m1"), Endpoint("u2", "m1")>>} }

\* A document of one account, as an older installation left it.
LegacyDoc ==
  UserData(<<[id |-> "A", authService |-> ServiceOf("A"), profiles |-> OwnedProfiles,
              selectedProfile |-> "p1"]>>,
           "A", "legacy-token", <<Endpoint("u1", "m1")>>)

\* What a legacy path can hold: nothing, a document, or a document written
\* before the schema had yggdrasilServices.
LegacyContents ==
  { Missing, FileOf(Serialize(LegacyDoc)),
    FileOf(SelectSeq(Serialize(LegacyDoc), LAMBDA m : m.key # "yggdrasilServices")) }

\* A call can be made when the one before it has returned.
StoreFree == store.pc \in {"idle", "done"}

\* write(data) is called.
StoreWriteCall ==
  \E data \in Docs :
    /\ StoreFree
    /\ store' = [store EXCEPT !.op = "write", !.pc = "ensureFile", !.data = data,
                              !.i = 0, !.copies = 0, !.prev = store.op]
    /\ UNCHANGED <<sessionVars, accountSystems, modsVars, controllerVars, proc, locks, pendingWrites, writing,
                   file, legacy>>

\* ensureFile(path): a missing file is created empty.
StoreEnsureFile ==
  /\ store.pc = "ensureFile"
  /\ file' = IF file.exists THEN file ELSE FileOf(<< >>)
  /\ store' = [store EXCEPT !.pc = "writeFile"]
  /\ UNCHANGED <<sessionVars, accountSystems, modsVars, controllerVars, proc, locks, pendingWrites, writing, legacy>>

\* A write that creates the file and leaves its content alone.
StoreWriteFileNoContent ==
  /\ store.pc = "writeFile"
  /\ store' = [store EXCEPT !.pc = "done"]
  /\ UNCHANGED <<sessionVars, accountSystems, modsVars, controllerVars, proc, locks, pendingWrites, writing,
                 file, legacy>>

\* writeFile(path, await serializer.serialize(data)): the file is replaced.
StoreWriteFile ==
  /\ store.pc = "writeFile"
  /\ file' = FileOf(Serialize(store.data))
  /\ store' = [store EXCEPT !.pc = "done"]
  /\ UNCHANGED <<sessionVars, accountSystems, modsVars, controllerVars, proc, locks, pendingWrites, writing, legacy>>

\* read() is called.
StoreReadCall ==
  /\ StoreFree
  /\ store' = [store EXCEPT !.op = "read", !.pc = "missing", !.i = 0, !.copies = 0,
                            !.prev = store.op]
  /\ UNCHANGED <<sessionVars, accountSystems, modsVars, controllerVars, proc, locks, pendingWrites, writing,
                 file, legacy>>

\* await missing(path): with no file, the loop over legacyPaths is entered.
StoreReadMissing ==
  /\ store.pc = "missing"
  /\ store' = IF ~file.exists /\ NumLegacy > 0
                THEN [store EXCEPT !.pc = "copyFile", !.i = 1]
                ELSE [store EXCEPT !.pc = "readFile"]
  /\ UNCHANGED <<sessionVars, accountSystems, modsVars, controllerVars, proc, locks, pendingWrites, writing,
                 file, legacy>>

\* A loop over legacyPaths that goes on after a copy.
StoreReadCopyNoBreak ==
  /\ store.pc = "copyFile"
  /\ file' = IF legacy[store.i].exists THEN legacy[store.i] ELSE file
  /\ store' = [store EXCEPT
                 !.copies = IF legacy[store.i].exists THEN @ + 1 ELSE @,
                 !.i = IF store.i < NumLegacy THEN @ + 1 ELSE @,
                 !.pc = IF store.i < NumLegacy THEN "copyFile" ELSE "readFile"]
  /\ UNCHANGED <<sessionVars, accountSystems, modsVars, controllerVars, proc, locks, pendingWrites, writing, legacy>>

\* await copyFile(p, path) for the next legacy path: a copy ends the loop, a
\* failure (no file at p) is caught and the next path is tried.
StoreReadCopy ==
  /\ store.pc = "copyFile"
  /\ IF legacy[store.i].exists
       THEN /\ file' = legacy[store.i]
            /\ store' = [store EXCEPT !.copies = @ + 1, !.pc = "readFile"]
       ELSE /\ UNCHANGED file
            /\ store' = [store EXCEPT
                           !.i = IF store.i < NumLegacy THEN @ + 1 ELSE @,
                           !.pc = IF store.i < NumLegacy THEN "copyFile" ELSE "readFile"]
  /\ UNCHANGED <<sessionVars, accountSystems, modsVars, controllerVars, proc, locks, pendingWrites, writing, legacy>>

\* readFile(path), an empty buffer if it fails, and deserialize: read returns.
StoreReadFile ==
  /\ store.pc = "readFile"
  /\ store' = [store EXCEPT
                 !.result = Deserialize(IF file.exists THEN file.bytes ELSE << >>),
                 !.pc = "done"]
  /\ UNCHANGED <<sessionVars, accountSystems, modsVars, controllerVars, proc, locks, pendingWrites, writing,
                 file, legacy>>

\* ------------------------------------------------------------ validation

\* An argument that is not a string, and one that is not an object.
NotAString == "<number>"

NotAnObject == "<null>"

\* The malformed ids a caller can pass: the empty string and a non-string.
MalformedIds == {"", NotAString}

\* requireString(v) passes: v is a string, and not the empty one.
RequireString(v) == v \notin MalformedIds

\* requireObject(v) passes: v is an object.
RequireObject(v) == v = "object"

\* ------------------------------------------------------------ the guard

LockKeys == {"login", "uploadSkin", "refreshUser", "selectUser"}

\* A guard keyed by an argument of the call instead.
LockKeyPerArg(op, arg) == IF op = "login" THEN arg ELSE op

\* The key each @Lock-decorated operation is guarded by.
LockKey(op, arg) == op

\* A call: the operation and its arguments, where it stands, the account its
\* provider call is about (for removeUserProfile, its single-flight key), the
\* selection a selectUser or a removeUserProfile execution found, whether its
\* abort signal has fired, and its outcome. For uploadSkin, skin is the slim
\* flag of options.skin and profile is the game profile handed to setSkin.
\* For login, service is options.service; system is the account system a
\* login, a refresh or a skin upload resolved. options tells whether the
\* options argument of an uploadSkin is an object.
Idle == [op |-> "none", arg |-> "", arg2 |-> "", skin |-> "none", service |-> "",
         options |-> "object", pc |-> "idle", target |-> "", profile |-> "",
         system |-> "", prev |-> "", aborted |-> FALSE, result |-> ""]

\* A guard that lets the newest caller go first.
EnqueueFront(lk, key, p) == [lk EXCEPT ![key] = <<p>> \o @]

Enqueue(lk, key, p) == [lk EXCEPT ![key] = Append(@, p)]

Release(lk, key) == [lk EXCEPT ![key] = Tail(@)]

Holds(key, p) == locks[key] # << >> /\ Head(locks[key]) = p

\* The call's promise settled with outcome r.
Done(p, r) == [Idle EXCEPT !.op = proc[p].op, !.arg = proc[p].arg, !.arg2 = proc[p].arg2,
                           !.skin = proc[p].skin, !.service = proc[p].service,
                           !.options = proc[p].options, !.pc = "done", !.system = proc[p].system,
                           !.target = proc[p].target, !.profile = proc[p].profile,
                           !.prev = proc[p].prev, !.result = r]

\* What a provider call can end with: a cancellation once its signal has fired.
ProviderOutcomes(aborted) == IF aborted THEN {"cancelled"} ELSE {"ok", "error"}

\* The file store's direct caller: the call in progress (write or read), the
\* document a write was given, the legacy path a read is trying, the number
\* of files the read has copied, the document the last read returned, and the
\* call that ended before this one.
StoreIdle == [op |-> "none", pc |-> "idle", data |-> UserData(<< >>, "", "", << >>),
              i |-> 0, copies |-> 0, result |-> UserData(<< >>, "", "", << >>),
              prev |-> "none", loading |-> {}, failed |-> FALSE]

\* InstanceModsService after construction: new InstanceModsState(), no
\* watcher, no instance selected.
InitMods ==
  /\ instance = ""
  /\ modsWatcher = 0
  /\ watchers = << >>
  /\ path = ""
  /\ mounts = << >>

\* The service after construction, before any call.
InitSession ==
  /\ users = << >>
  /\ selectedUser = ""
  /\ clientToken = "token"
  /\ yggdrasilServices = << >>
  /\ loginController = NoProc
  /\ refreshController = NoProc
  /\ setSkinController = NoProc
  /\ accountSystems = [name \in ServiceNames |-> "none"]
  /\ proc = [p \in Procs |-> Idle]
  /\ locks = [k \in LockKeys \cup UserIds |-> << >>]
  /\ pendingWrites = {}
  /\ writing = << >>
  /\ store = StoreIdle
  /\ InitMods

\* user.json holds the state the service started with; no legacy file is left.
Init ==
  /\ InitSession
  /\ file = FileOf(Serialize(UserData(<< >>, "", "token", << >>)))
  /\ legacy = [i \in 1..NumLegacy |-> Missing]

\* The store is created over any files: the primary path holds nothing, an
\* empty file or a document, each legacy path any of LegacyContents.
InitFile ==
  /\ InitSession
  /\ file \in {Missing, FileOf(<< >>),
                FileOf(Serialize(UserData(<< >>, "", "token", << >>)))}
  /\ legacy \in [1..NumLegacy -> LegacyContents]

\* Call slots are taken in order: the first free one.
FreeSlot(p) == proc[p].pc = "idle" /\ \A q \in Procs : q < p => proc[q].pc # "idle"

\* A caller invokes a @Lock-decorated operation: it queues on the key.
Call(p, op, arg, arg2) ==
  /\ FreeSlot(p)
  /\ proc' = [proc EXCEPT ![p] = [Idle EXCEPT !.op = op, !.arg = arg, !.arg2 = arg2,
                                               !.pc = "queued"]]
  /\ locks' = Enqueue(locks, LockKey(op, arg), p)
  /\ UNCHANGED <<sessionVars, accountSystems, modsVars, controllerVars, diskVars>>

\* The caller has read the call's outcome.
Return(p) ==
  /\ proc[p].pc = "done"
  /\ proc' = [proc EXCEPT ![p] = Idle]
  /\ UNCHANGED <<sessionVars, accountSystems, modsVars, controllerVars, locks, diskVars>>

\* An abort call: controller?.abort(). With a live controller, the signal of
\* the call that owns it fires; with none, nothing happens. The call has no
\* await and returns at once; its aborted field tells whether it fired a signal.
AbortCall(p, op, controller) ==
  /\ FreeSlot(p)
  /\ proc' = [q \in Procs |->
                IF q = p
                  THEN [Idle EXCEPT !.op = op, !.pc = "done", !.result = "ok",
                                    !.aborted = (controller # NoProc)]
                  ELSE IF q = controller
                         THEN [proc[q] EXCEPT !.aborted = TRUE]
                         ELSE proc[q]]
  /\ UNCHANGED <<sessionVars, accountSystems, modsVars, controllerVars, locks, diskVars>>

\* ----------------------------------------------------------------- login

\* The account systems other services register, and the built-in one.
Providers == {"sysA", "sysB"}

yggdrasilAccountSystem == "yggdrasil"

\* The names among ServiceNames that Object.prototype has a property for.
ObjectPrototypeKeys == {"constructor"}

\* this.accountSystems[name] on an object created by {}: the registered
\* system, else the property inherited from Object.prototype, else undefined.
AccountSystemAt(name) ==
  IF accountSystems[name] # "none" THEN accountSystems[name]
  ELSE IF name \in ObjectPrototypeKeys THEN "Object.prototype" ELSE "none"

\* this.accountSystems[name] || this.yggdrasilAccountSystem
Resolve(name) ==
  IF AccountSystemAt(name) # "none" THEN AccountSystemAt(name)
  ELSE yggdrasilAccountSystem

\* The value has the methods login, refresh and setSkin.
IsAccountSystem(system) == system \in Providers \cup {yggdrasilAccountSystem}

\* registerAccountSystem(name, system): the entry under name is overwritten.
RegisterAccountSystem ==
  \E name \in {"microsoft"}, system \in Providers :
    /\ accountSystems' = [accountSystems EXCEPT ![name] = system]
    /\ UNCHANGED <<sessionVars, controllerVars, proc, locks, diskVars, modsVars>>

\* login(options) with options.service = service, for the account id.
LoginWith(p, id, service) ==
  /\ FreeSlot(p)
  /\ proc' = [proc EXCEPT ![p] = [Idle EXCEPT !.op = "login", !.arg = id,
                                               !.service = service, !.pc = "queued"]]
  /\ locks' = Enqueue(locks, LockKey("login", id), p)
  /\ UNCHANGED <<sessionVars, accountSystems, modsVars, controllerVars, diskVars>>

\* A caller logs an account in through the service it belongs to.
LoginCall(p) == \E id \in UserIds : LoginWith(p, id, ServiceOf(id))

\* A caller logs an account in through any service name.
LoginAnyService(p) ==
  \E id \in UserIds, service \in ServiceNames : LoginWith(p, id, service)

\* A login that selects the account it is asked for before the provider answers.
LoginStartSelectsEarly(p) ==
  /\ proc[p].op = "login" /\ proc[p].pc = "queued"
  /\ Holds(LockKey("login", proc[p].arg), p)
  /\ loginController' = p
  /\ proc' = [proc EXCEPT ![p].pc = "provider", ![p].system = Resolve(proc[p].service)]
  /\ selectedUser' = userSelect(selectedUser, proc[p].arg)
  /\ UNCHANGED <<users, clientToken, accountSystems, modsVars, yggdrasilServices, refreshController,
                 setSkinController, locks, diskVars>>

\* login up to the await: the system is resolved, the controller is created
\* and the system's login is called. Calling login on a value that has no
\* such method throws: the call fails with the controller left in place.
LoginStart(p) ==
  /\ proc[p].op = "login" /\ proc[p].pc = "queued"
  /\ Holds(LockKey("login", proc[p].arg), p)
  /\ loginController' = p
  /\ IF IsAccountSystem(Resolve(proc[p].service))
       THEN /\ proc' = [proc EXCEPT ![p].pc = "provider",
                                    ![p].system = Resolve(proc[p].service)]
            /\ UNCHANGED locks
       ELSE /\ proc' = [proc EXCEPT ![p] =
                         [Done(p, "error") EXCEPT !.system = Resolve(proc[p].service)]]
            /\ locks' = Release(locks, LockKey("login", proc[p].arg))
  /\ UNCHANGED <<sessionVars, accountSystems, modsVars, refreshController, setSkinController,
                 diskVars>>

\* A login that stores the provider's account and leaves the selection alone.
LoginSettleNoSelect(p) ==
  /\ proc[p].op = "login" /\ proc[p].pc = "provider"
  /\ \E r \in ProviderOutcomes(proc[p].aborted) :
       /\ loginController' = NoProc
       /\ proc' = [proc EXCEPT ![p] = Done(p, r)]
       /\ locks' = Release(locks, LockKey("login", proc[p].arg))
       /\ IF r = "ok"
            THEN \E profile \in ProviderAccounts(proc[p].arg) :
                   /\ users' = userProfile(users, profile)
                   /\ Notify({"userProfile"})
            ELSE UNCHANGED <<users, diskVars>>
  /\ UNCHANGED <<selectedUser, clientToken, accountSystems, modsVars, yggdrasilServices, refreshController,
                 setSkinController>>

\* A login whose controller stays in place when the provider call has ended.
LoginSettleKeepsController(p) ==
  /\ proc[p].op = "login" /\ proc[p].pc = "provider"
  /\ \E r \in ProviderOutcomes(proc[p].aborted) :
       /\ proc' = [proc EXCEPT ![p] = Done(p, r)]
       /\ locks' = Release(locks, LockKey("login", proc[p].arg))
       /\ IF r = "ok"
            THEN \E profile \in ProviderAccounts(proc[p].arg) :
                   /\ users' = userProfile(users, profile)
                   /\ selectedUser' = userSelect(selectedUser, profile.id)
                   /\ Notify({"userProfile", "userSelect"})
            ELSE UNCHANGED <<users, selectedUser, diskVars>>
  /\ UNCHANGED <<clientToken, accountSystems, modsVars, yggdrasilServices, controllerVars>>

\* A login that takes the client token the provider answers with.
LoginSettleNewToken(p) ==
  /\ proc[p].op = "login" /\ proc[p].pc = "provider"
  /\ \E r \in ProviderOutcomes(proc[p].aborted) :
       /\ loginController' = NoProc
       /\ proc' = [proc EXCEPT ![p] = Done(p, r)]
       /\ locks' = Release(locks, LockKey("login", proc[p].arg))
       /\ IF r = "ok"
            THEN \E profile \in ProviderAccounts(proc[p].arg) :
                   /\ users' = userProfile(users, profile)
                   /\ selectedUser' = userSelect(selectedUser, profile.id)
                   /\ clientToken' = "token-of-provider"
                   /\ Notify({"userProfile", "userSelect"})
            ELSE UNCHANGED <<users, selectedUser, clientToken, diskVars>>
  /\ UNCHANGED <<accountSystems, modsVars, yggdrasilServices, refreshController, setSkinController>>

\* The provider's login settled: finally clears the controller, then the
\* account is stored and selected, or the error reaches the caller.
LoginSettle(p) ==
  /\ proc[p].op = "login" /\ proc[p].pc = "provider"
  /\ \E r \in ProviderOutcomes(proc[p].aborted) :
       /\ loginController' = NoProc
       /\ proc' = [proc EXCEPT ![p] = Done(p, r)]
       /\ locks' = Release(locks, LockKey("login", proc[p].arg))
       /\ IF r = "ok"
            THEN \E profile \in ProviderAccounts(proc[p].arg) :
                   /\ users' = userProfile(users, profile)
                   /\ selectedUser' = userSelect(selectedUser, profile.id)
                   /\ Notify({"userProfile", "userSelect"})
            ELSE UNCHANGED <<users, selectedUser, diskVars>>
  /\ UNCHANGED <<clientToken, accountSystems, modsVars, yggdrasilServices, refreshController, setSkinController>>

\* abortLogin(): this.loginController?.abort(), and the call has returned.
AbortLogin(p) == AbortCall(p, "abortLogin", loginController)

\* ----------------------------------------------------------- refreshUser

RefreshUserCall(p) == Call(p, "refreshUser", "", "")

\* refreshUser runs as its own call, or inside selectUser.
RefreshQueued(p) ==
  \/ proc[p].op = "refreshUser" /\ proc[p].pc = "queued"
  \/ proc[p].op = "selectUser" /\ proc[p].pc = "refreshQueued"

RefreshAwaiting(p) ==
  \/ proc[p].op = "refreshUser" /\ proc[p].pc = "provider"
  \/ proc[p].op = "selectUser" /\ proc[p].pc = "refreshProvider"

\* A refresh made by selectUser that keeps the key of selectUser when it ends.
ReleaseRefreshKeepsSelect(p) == Release(locks, LockKey("refreshUser", ""))

\* The keys released when p's refreshUser ends: a selectUser ends with it.
ReleaseRefresh(p) ==
  IF proc[p].op = "selectUser"
    THEN Release(Release(locks, LockKey("refreshUser", "")), LockKey("selectUser", proc[p].arg))
    ELSE Release(locks, LockKey("refreshUser", ""))

\* A refreshUser that calls the provider whether or not there is a current user.
RefreshStartNoSkip(p) ==
  /\ RefreshQueued(p)
  /\ Holds(LockKey("refreshUser", ""), p)
  /\ refreshController' = p
  /\ proc' = [proc EXCEPT ![p].target = selectedUser,
                          ![p].system = yggdrasilAccountSystem,
                          ![p].pc = IF proc[p].op = "selectUser"
                                      THEN "refreshProvider" ELSE "provider"]
  /\ UNCHANGED <<sessionVars, accountSystems, modsVars, loginController, setSkinController, locks, diskVars>>

\* refreshUser up to the await: skip without a current user, else call the provider.
RefreshStart(p) ==
  /\ RefreshQueued(p)
  /\ Holds(LockKey("refreshUser", ""), p)
  /\ IF ~HasCurrentUser
       THEN /\ proc' = [proc EXCEPT ![p] = Done(p, "ok")]
            /\ locks' = ReleaseRefresh(p)
            /\ UNCHANGED refreshController
       ELSE /\ refreshController' = p
            /\ proc' = [proc EXCEPT ![p].target = selectedUser,
                                    ![p].system =
                                      Resolve(UserOf(users, selectedUser).authService),
                                    ![p].pc = IF proc[p].op = "selectUser"
                                                THEN "refreshProvider" ELSE "provider"]
            /\ UNCHANGED locks
  /\ UNCHANGED <<sessionVars, accountSystems, modsVars, loginController, setSkinController, diskVars>>

\* A refresh that deletes the account when its provider call fails.
RefreshSettleDropsOnFailure(p) ==
  /\ RefreshAwaiting(p)
  /\ \E r \in ProviderOutcomes(proc[p].aborted) :
       /\ refreshController' = NoProc
       /\ proc' = [proc EXCEPT ![p] = Done(p, r)]
       /\ locks' = ReleaseRefresh(p)
       /\ IF r = "ok"
            THEN \E newUser \in ProviderAccounts(proc[p].target) :
                   /\ users' = userProfile(users, newUser)
                   /\ Notify({"userProfile"})
            ELSE /\ users' = userProfileRemoveUsers(users, proc[p].target)
                 /\ Notify({"userProfileRemove"})
  /\ UNCHANGED <<selectedUser, clientToken, accountSystems, modsVars, yggdrasilServices, loginController,
                 setSkinController>>

\* The provider's refresh settled: finally clears the controller, then the
\* refreshed account is stored, or the error reaches the caller.
RefreshSettle(p) ==
  /\ RefreshAwaiting(p)
  /\ \E r \in ProviderOutcomes(proc[p].aborted) :
       /\ refreshController' = NoProc
       /\ proc' = [proc EXCEPT ![p] = Done(p, r)]
       /\ locks' = ReleaseRefresh(p)
       /\ IF r = "ok"
            THEN \E newUser \in ProviderAccounts(proc[p].target) :
                   /\ users' = userProfile(users, newUser)
                   /\ Notify({"userProfile"})
            ELSE UNCHANGED <<users, diskVars>>
  /\ UNCHANGED <<selectedUser, clientToken, accountSystems, modsVars, yggdrasilServices, loginController,
                 setSkinController>>

\* abortRefresh(): this.refreshController?.abort(), and the call has returned.
AbortRefresh(p) == AbortCall(p, "abortRefresh", refreshController)

\* ------------------------------------------------------------ selectUser

SelectUserCall(p) == \E id \in UserIds : Call(p, "selectUser", id, "")

\* selectUser called with a malformed id.
SelectUserMalformed(p) == \E id \in MalformedIds : Call(p, "selectUser", id, "")

\* A selectUser that does not check its argument.
SelectUserStartUnchecked(p) ==
  /\ proc[p].op = "selectUser" /\ proc[p].pc = "queued"
  /\ Holds(LockKey("selectUser", proc[p].arg), p)
  /\ IF proc[p].arg = selectedUser
       THEN /\ proc' = [proc EXCEPT ![p] = Done(p, "ok")]
            /\ locks' = Release(locks, LockKey("selectUser", proc[p].arg))
            /\ UNCHANGED <<selectedUser, diskVars>>
       ELSE /\ selectedUser' = userSelect(selectedUser, proc[p].arg)
            /\ proc' = [proc EXCEPT ![p].pc = "refreshQueued", ![p].prev = selectedUser]
            /\ locks' = Enqueue(locks, LockKey("refreshUser", ""), p)
            /\ Notify({"userSelect"})
  /\ UNCHANGED <<users, clientToken, accountSystems, modsVars, yggdrasilServices, controllerVars>>

\* A selectUser that selects and returns without calling refreshUser.
SelectUserStartNoRefresh(p) ==
  /\ proc[p].op = "selectUser" /\ proc[p].pc = "queued"
  /\ Holds(LockKey("selectUser", proc[p].arg), p)
  /\ selectedUser' = userSelect(selectedUser, proc[p].arg)
  /\ proc' = [proc EXCEPT ![p] = Done(p, "ok")]
  /\ locks' = Release(locks, LockKey("selectUser", proc[p].arg))
  /\ Notify({"userSelect"})
  /\ UNCHANGED <<users, clientToken, accountSystems, modsVars, yggdrasilServices, controllerVars>>

\* selectUser up to its await: requireString throws on a malformed id; else
\* return when already selected, or select and call refreshUser, which queues
\* on its own key.
SelectUserStart(p) ==
  /\ proc[p].op = "selectUser" /\ proc[p].pc = "queued"
  /\ Holds(LockKey("selectUser", proc[p].arg), p)
  /\ IF ~RequireString(proc[p].arg)
       THEN /\ proc' = [proc EXCEPT ![p] = Done(p, "error")]
            /\ locks' = Release(locks, LockKey("selectUser", proc[p].arg))
            /\ UNCHANGED <<selectedUser, diskVars>>
       ELSE IF proc[p].arg = selectedUser
       THEN /\ proc' = [proc EXCEPT ![p] = Done(p, "ok")]
            /\ locks' = Release(locks, LockKey("selectUser", proc[p].arg))
            /\ UNCHANGED <<selectedUser, diskVars>>
       ELSE /\ selectedUser' = userSelect(selectedUser, proc[p].arg)
            /\ proc' = [proc EXCEPT ![p].pc = "refreshQueued", ![p].prev = selectedUser]
            /\ locks' = Enqueue(locks, LockKey("refreshUser", ""), p)
            /\ Notify({"userSelect"})
  /\ UNCHANGED <<users, clientToken, accountSystems, modsVars, yggdrasilServices, controllerVars>>

\* ----------------------------------------------------- selectGameProfile

\* selectGameProfile holds its key for no await: call, body and return are
\* one step. requireString throws on a malformed id; without a current user
\* it warns and returns.
SelectGameProfile(profileId) ==
  /\ IF ~RequireString(profileId) \/ ~HasCurrentUser
       THEN UNCHANGED <<users, diskVars>>
       ELSE /\ users' = userGameProfileSelect(users, selectedUser, profileId)
            /\ Notify({"userGameProfileSelect"})
  /\ UNCHANGED <<selectedUser, clientToken, accountSystems, modsVars, yggdrasilServices, controllerVars, proc, locks>>

\* selectGameProfile, with a record of the call and its outcome.
SelectGameProfileCall(p) ==
  \E profileId \in ProfileIds \cup MalformedIds :
    /\ FreeSlot(p)
    /\ proc' = [proc EXCEPT ![p] =
                  [Idle EXCEPT !.op = "selectGameProfile", !.arg = profileId,
                               !.pc = "done",
                               !.result = IF RequireString(profileId) THEN "ok"
                                                                      ELSE "error"]]
    /\ IF ~RequireString(profileId) \/ ~HasCurrentUser
         THEN UNCHANGED <<users, diskVars>>
         ELSE /\ users' = userGameProfileSelect(users, selectedUser, profileId)
              /\ Notify({"userGameProfileSelect"})
    /\ UNCHANGED <<selectedUser, clientToken, accountSystems, modsVars, yggdrasilServices, controllerVars, locks>>

\* ------------------------------------------------------------ uploadSkin

\* options.skin of a call: no skin, a skin without a slim flag, or a slim one.
SkinOptions == {"none", "absent", "true"}

\* uploadSkin({userId, gameProfileId, skin}): "" stands for a userId or
\* gameProfileId left out.
UploadSkinWith(p, userId, gameProfileId, skin) ==
  /\ FreeSlot(p)
  /\ proc' = [proc EXCEPT ![p] = [Idle EXCEPT !.op = "uploadSkin", !.arg = userId,
                                               !.arg2 = gameProfileId, !.skin = skin,
                                               !.pc = "queued"]]
  /\ locks' = Enqueue(locks, LockKey("uploadSkin", userId), p)
  /\ UNCHANGED <<sessionVars, accountSystems, modsVars, controllerVars, diskVars>>

UploadSkinCall(p) ==
  \E userId \in UserIds \cup {""}, gameProfileId \in OwnedProfiles \cup {""},
     skin \in SkinOptions :
    UploadSkinWith(p, userId, gameProfileId, skin)

\* uploadSkin({}): the selected account, its selected profile, no skin.
UploadSkinDefault(p) == UploadSkinWith(p, "", "", "none")

\* uploadSkin called with options that are not an object.
UploadSkinMalformed(p) ==
  /\ FreeSlot(p)
  /\ proc' = [proc EXCEPT ![p] = [Idle EXCEPT !.op = "uploadSkin",
                                               !.options = NotAnObject,
                                               !.pc = "queued"]]
  /\ locks' = Enqueue(locks, LockKey("uploadSkin", ""), p)
  /\ UNCHANGED <<sessionVars, accountSystems, modsVars, controllerVars, diskVars>>

\* userId = this.state.selectedUser.id: the default of a userId left out.
ResolveUserId(userId) == IF userId = "" THEN selectedUser ELSE userId

\* gameProfileId || user.selectedProfile
ResolveProfileId(gameProfileId, user) ==
  IF gameProfileId = "" THEN user.selectedProfile ELSE gameProfileId

\* A skin without a boolean slim flag gets slim = false, in the caller's object.
ResolveSlim(skin) == IF skin = "absent" THEN "false" ELSE skin

\* What uploadSkin({userId, gameProfileId, skin}) hands to setSkin in the
\* current state: the account, the game profile's id and the options object,
\* which is the caller's. Reading user.profiles of a missing account, or
\* gameProfile.name of a missing profile, throws instead.
SetSkinArgs(userId, gameProfileId, skin) ==
  IF ~HasUser(users, ResolveUserId(userId))
    THEN [throws |-> TRUE]
    ELSE LET user == UserOf(users, ResolveUserId(userId))
             gameProfile == ResolveProfileId(gameProfileId, user)
         IN IF gameProfile \notin user.profiles
              THEN [throws |-> TRUE]
              ELSE [throws |-> FALSE, user |-> user, gameProfile |-> gameProfile,
                    options |-> [userId |-> userId, gameProfileId |-> gameProfileId,
                                 skin |-> ResolveSlim(skin)]]

\* options.userId, defaulted to the selected account.
SkinUserId(p) == ResolveUserId(proc[p].arg)

\* A default game profile that is the account's first one.
SkinProfileIdFirstOwned(p, user) ==
  IF proc[p].arg2 = "" THEN CHOOSE g \in user.profiles : TRUE ELSE proc[p].arg2

\* gameProfileId || user.selectedProfile
SkinProfileId(p, user) == ResolveProfileId(proc[p].arg2, user)

\* uploadSkin up to the await. requireObject throws on options that are no
\* object; reading user.profiles of a missing account throws; reading
\* gameProfile.name of a missing profile throws after the slim flag has been
\* defaulted.
UploadSkinStart(p) ==
  /\ proc[p].op = "uploadSkin" /\ proc[p].pc = "queued"
  /\ Holds(LockKey("uploadSkin", proc[p].arg), p)
  /\ IF /\ RequireObject(proc[p].options)
        /\ HasUser(users, SkinUserId(p))
        /\ SkinProfileId(p, UserOf(users, SkinUserId(p)))
             \in UserOf(users, SkinUserId(p)).profiles
       THEN /\ setSkinController' = p
            /\ proc' = [proc EXCEPT ![p].target = SkinUserId(p),
                                    ![p].profile =
                                      SkinProfileId(p, UserOf(users, SkinUserId(p))),
                                    ![p].skin = ResolveSlim(proc[p].skin),
                                    ![p].system =
                                      Resolve(UserOf(users, SkinUserId(p)).authService),
                                    ![p].pc = "provider"]
            /\ UNCHANGED locks
       ELSE /\ proc' = [proc EXCEPT ![p] =
                         [Done(p, "error") EXCEPT !.skin =
                            IF RequireObject(proc[p].options) /\ HasUser(users, SkinUserId(p))
                              THEN ResolveSlim(proc[p].skin) ELSE proc[p].skin]]
            /\ locks' = Release(locks, LockKey("uploadSkin", proc[p].arg))
            /\ UNCHANGED setSkinController
  /\ UNCHANGED <<sessionVars, accountSystems, modsVars, loginController, refreshController, diskVars>>

\* An uploadSkin whose key stays taken when the provider call fails.
UploadSkinSettleKeepsKey(p) ==
  /\ proc[p].op = "uploadSkin" /\ proc[p].pc = "provider"
  /\ \E r \in ProviderOutcomes(proc[p].aborted) :
       /\ setSkinController' = NoProc
       /\ proc' = [proc EXCEPT ![p] = Done(p, r)]
       /\ IF r = "ok"
            THEN \E data \in ProviderAccounts(proc[p].target) :
                   /\ users' = userProfile(users, data)
                   /\ locks' = Release(locks, LockKey("uploadSkin", proc[p].arg))
                   /\ Notify({"userProfile"})
            ELSE UNCHANGED <<users, locks, diskVars>>
  /\ UNCHANGED <<selectedUser, clientToken, accountSystems, modsVars, yggdrasilServices, loginController,
                 refreshController>>

\* The provider's setSkin settled: finally clears the controller, then the
\* returned account is stored, or the error reaches the caller.
UploadSkinSettle(p) ==
  /\ proc[p].op = "uploadSkin" /\ proc[p].pc = "provider"
  /\ \E r \in ProviderOutcomes(proc[p].aborted) :
       /\ setSkinController' = NoProc
       /\ proc' = [proc EXCEPT ![p] = Done(p, r)]
       /\ locks' = Release(locks, LockKey("uploadSkin", proc[p].arg))
       /\ IF r = "ok"
            THEN \E data \in ProviderAccounts(proc[p].target) :
                   /\ users' = userProfile(users, data)
                   /\ Notify({"userProfile"})
            ELSE UNCHANGED <<users, diskVars>>
  /\ UNCHANGED <<selectedUser, clientToken, accountSystems, modsVars, yggdrasilServices, loginController,
                 refreshController>>

\* -------------------------------------------------- identity endpoints

\* The arguments callers pass as url: urls, a url behind the protocol prefix,
\* and a text that is no url.
UrlArgs == Urls \cup {"authlib-injector:u2", "::"}

\* The url after the two prefixes are cut off and decodeURIComponent.
StripPrefix(url) == IF url = "authlib-injector:u2" THEN "u2" ELSE url

\* new URL(url) does not throw.
ValidUrl(url) == url \in Urls

\* What loadYggdrasilApiProfile(url) can end with.
LoadOutcomes == {"ok", "error"}

\* addYggdrasilAccountSystem(url) up to the await: new URL throws on a text
\* that is no url, else the descriptor is requested.
AddYggdrasilWith(p, url) ==
  /\ FreeSlot(p)
  /\ proc' = [proc EXCEPT ![p] =
                IF ValidUrl(StripPrefix(url))
                  THEN [Idle EXCEPT !.op = "addYggdrasilAccountSystem", !.arg = url,
                                    !.pc = "loading", !.target = StripPrefix(url)]
                  ELSE [Idle EXCEPT !.op = "addYggdrasilAccountSystem", !.arg = url,
                                    !.pc = "done", !.result = "error"]]
  /\ UNCHANGED <<sessionVars, accountSystems, modsVars, controllerVars, locks, diskVars>>

AddYggdrasilCall(p) == \E url \in UrlArgs : AddYggdrasilWith(p, url)

\* An add that stores an entry whether or not the descriptor could be loaded.
AddYggdrasilSettleAlwaysPuts(p) ==
  /\ proc[p].op = "addYggdrasilAccountSystem" /\ proc[p].pc = "loading"
  /\ \E r \in LoadOutcomes, m \in Metas :
       /\ proc' = [proc EXCEPT ![p] = Done(p, r)]
       /\ yggdrasilServices' =
            userYggdrasilServicePut(yggdrasilServices, Endpoint(proc[p].target, m))
       /\ Notify({"userYggdrasilServicePut"})
  /\ UNCHANGED <<users, selectedUser, clientToken, accountSystems, modsVars, controllerVars, locks>>

\* loadYggdrasilApiProfile settled: the descriptor is put into the list, or
\* the error reaches the caller.
AddYggdrasilSettle(p) ==
  /\ proc[p].op = "addYggdrasilAccountSystem" /\ proc[p].pc = "loading"
  /\ \E r \in LoadOutcomes :
       /\ proc' = [proc EXCEPT ![p] = Done(p, r)]
       /\ IF r = "ok"
            THEN \E m \in Metas :
                   /\ yggdrasilServices' =
                        userYggdrasilServicePut(yggdrasilServices,
                                                Endpoint(proc[p].target, m))
                   /\ Notify({"userYggdrasilServicePut"})
            ELSE UNCHANGED <<yggdrasilServices, diskVars>>
  /\ UNCHANGED <<users, selectedUser, clientToken, accountSystems, modsVars, controllerVars, locks>>

\* removeYggdrasilAccountSystem(url): it has no await; the list is replaced
\* by its entries whose url is not the argument.
RemoveYggdrasilCall(p) ==
  \E url \in UrlArgs :
    /\ FreeSlot(p)
    /\ proc' = [proc EXCEPT ![p] =
                  [Idle EXCEPT !.op = "removeYggdrasilAccountSystem", !.arg = url,
                               !.pc = "done", !.result = "ok"]]
    /\ yggdrasilServices' =
         userYggdrasilServices(yggdrasilServices,
                               SelectSeq(yggdrasilServices, LAMBDA a : a.url # url))
    /\ Notify({"userYggdrasilServices"})
    /\ UNCHANGED <<users, selectedUser, clientToken, accountSystems, modsVars, controllerVars, locks>>

\* ----------------------------------------------------- removeUserProfile

\* @Singleton() without a key function: one key for every call.
SingletonKeyConst(userId) == "removeUserProfile"

\* @Singleton(id => id): the key of a removeUserProfile(userId) call.
SingletonKey(userId) == userId

\* The call whose execution is registered under the key, if any.
Running(key) ==
  { q \in Procs : proc[q].op = "removeUserProfile" /\ proc[q].pc = "running"
                  /\ SingletonKey(proc[q].arg) = key }

\* users.find(u => !!u.selectedProfile): the first account, in Object.values
\* order, with a non-empty selectedProfile; 0 when there is none.
FindWithProfile(us) ==
  LET S == { i \in DOMAIN us : us[i].selectedProfile # "" }
  IN IF S = {} THEN 0 ELSE CHOOSE i \in S : \A j \in S : i <= j

\* The selection after the body's if-block, before userProfileRemove.
RemoveReselect(us, sel, userId) ==
  IF sel = userId /\ FindWithProfile(us) # 0
    THEN userSelect(sel, us[FindWithProfile(us)].id)
    ELSE sel

\* removeUserProfile(userId). A call whose key has an execution registered
\* joins it; otherwise the body runs (it has no await) and stays registered
\* until its promise settles. requireString throws on a malformed id: the
\* execution's promise is a rejected one.
RemoveUserProfileWith(p, userId) ==
  /\ FreeSlot(p)
  /\ IF Running(SingletonKey(userId)) # {}
       THEN /\ proc' = [proc EXCEPT ![p] = [Idle EXCEPT !.op = "removeUserProfile",
                           !.arg = userId, !.pc = "joined",
                           !.target = SingletonKey(userId)]]
            /\ UNCHANGED <<users, selectedUser, diskVars>>
       ELSE IF ~RequireString(userId)
       THEN /\ proc' = [proc EXCEPT ![p] = [Idle EXCEPT !.op = "removeUserProfile",
                           !.arg = userId, !.pc = "running",
                           !.target = SingletonKey(userId), !.prev = selectedUser,
                           !.result = "error"]]
            /\ UNCHANGED <<users, selectedUser, diskVars>>
       ELSE /\ proc' = [proc EXCEPT ![p] = [Idle EXCEPT !.op = "removeUserProfile",
                           !.arg = userId, !.pc = "running",
                           !.target = SingletonKey(userId), !.prev = selectedUser]]
            /\ selectedUser' = userProfileRemoveSelected(
                                 RemoveReselect(users, selectedUser, userId), userId)
            /\ users' = userProfileRemoveUsers(users, userId)
            /\ Notify({"userSelect", "userProfileRemove"})
  /\ UNCHANGED <<clientToken, accountSystems, modsVars, yggdrasilServices, controllerVars, locks>>

RemoveUserProfileCall(p) == \E userId \in UserIds : RemoveUserProfileWith(p, userId)

\* removeUserProfile called with a malformed id.
RemoveUserProfileMalformed(p) ==
  \E userId \in MalformedIds : RemoveUserProfileWith(p, userId)

\* The registered execution's promise settles: it and every call that joined
\* it get its outcome, and the key is free again.
RemoveUserProfileSettle(p) ==
  /\ proc[p].op = "removeUserProfile" /\ proc[p].pc = "running"
  /\ proc' = [q \in Procs |->
                IF \/ q = p
                   \/ /\ proc[q].op = "removeUserProfile" /\ proc[q].pc = "joined"
                      /\ proc[q].target = proc[p].target
                  THEN Done(q, IF proc[p].result = "error" THEN "error" ELSE "ok")
                  ELSE proc[q]]
  /\ UNCHANGED <<sessionVars, accountSystems, modsVars, controllerVars, locks, diskVars>>

\* ------------------------------------------------------- specifications

\* p's call has been made and has not settled.
InFlight(p) == proc[p].pc \notin {"idle", "done"}

AllSettled == \A p \in Procs : ~InFlight(p)

LoginSteps ==
  \/ \E p \in Procs : LoginCall(p)
  \/ \E p \in Procs : LoginStart(p)
  \/ \E p \in Procs : LoginSettle(p)
  \/ \E p \in Procs : AbortLogin(p)

RefreshSteps ==
  \/ \E p \in Procs : RefreshUserCall(p)
  \/ \E p \in Procs : RefreshStart(p)
  \/ \E p \in Procs : RefreshSettle(p)
  \/ \E p \in Procs : AbortRefresh(p)

SelectSteps ==
  \/ \E p \in Procs : SelectUserCall(p)
  \/ \E p \in Procs : SelectUserStart(p)

SkinSteps ==
  \/ \E p \in Procs : UploadSkinCall(p)
  \/ \E p \in Procs : UploadSkinStart(p)
  \/ \E p \in Procs : UploadSkinSettle(p)

RemoveSteps ==
  \/ \E p \in Procs : RemoveUserProfileCall(p)
  \/ \E p \in Procs : RemoveUserProfileSettle(p)

ProfileSteps == \E profileId \in ProfileIds : SelectGameProfile(profileId)

EndpointSteps ==
  \/ \E p \in Procs : AddYggdrasilCall(p)
  \/ \E p \in Procs : AddYggdrasilSettle(p)
  \/ \E p \in Procs : RemoveYggdrasilCall(p)

ReturnSteps == \E p \in Procs : Return(p)

DiskSteps == WriteSerialize \/ WriteDone

\* Every operation on accounts, the disk never answering. The disk steps read the session
\* state and write only pendingWrites, writing and file, and no operation
\* waits for them: what holds here of the other variables holds under Spec.
NextSession ==
  \/ LoginSteps \/ RefreshSteps \/ SelectSteps \/ SkinSteps \/ RemoveSteps
  \/ ProfileSteps \/ ReturnSteps

SpecSession == Init /\ [][NextSession]_vars

\* Callers that log in, remove accounts and select game profiles.
NextLogin == LoginSteps \/ RemoveSteps \/ ProfileSteps \/ ReturnSteps

SpecLogin == Init /\ [][NextLogin]_vars

\* Callers that log in, select accounts and refresh, and abort no call.
NextSelect ==
  \/ \E p \in Procs : LoginCall(p)
  \/ \E p \in Procs : LoginStart(p)
  \/ \E p \in Procs : LoginSettle(p)
  \/ \E p \in Procs : RefreshUserCall(p)
  \/ \E p \in Procs : RefreshStart(p)
  \/ \E p \in Procs : RefreshSettle(p)
  \/ SelectSteps \/ ReturnSteps

SpecSelect == Init /\ [][NextSelect]_vars

\* Callers that log in, refresh, abort refreshes and remove accounts.
NextRefresh ==
  \/ \E p \in Procs : LoginCall(p)
  \/ \E p \in Procs : LoginStart(p)
  \/ \E p \in Procs : LoginSettle(p)
  \/ RefreshSteps \/ RemoveSteps \/ ReturnSteps

SpecRefresh == Init /\ [][NextRefresh]_vars

\* Callers that log in and refresh, and abort logins and refreshes.
NextAbort == LoginSteps \/ RefreshSteps \/ ReturnSteps

SpecAbort == Init /\ [][NextAbort]_vars

\* Callers that log in, select game profiles and upload skins.
NextSkin ==
  \/ \E p \in Procs : LoginCall(p)
  \/ \E p \in Procs : LoginStart(p)
  \/ \E p \in Procs : LoginSettle(p)
  \/ SkinSteps \/ ProfileSteps \/ ReturnSteps

SpecSkin == Init /\ [][NextSkin]_vars

\* A caller of the file store that writes and reads, one call after another.
NextFile ==
  \/ StoreWriteCall \/ StoreEnsureFile \/ StoreWriteFile
  \/ StoreReadCall \/ StoreReadMissing \/ StoreReadCopy \/ StoreReadFile

SpecFile == InitFile /\ [][NextFile]_vars

\* Callers that add and remove identity endpoints.
NextEndpoint == EndpointSteps \/ ReturnSteps

SpecEndpoint == Init /\ [][NextEndpoint]_vars

\* Other services register account systems; callers log in through any
\* service name and refresh.
NextRegistry ==
  \/ RegisterAccountSystem
  \/ \E p \in Procs : LoginAnyService(p)
  \/ \E p \in Procs : LoginStart(p)
  \/ \E p \in Procs : LoginSettle(p)
  \/ \E p \in Procs : RefreshUserCall(p)
  \/ \E p \in Procs : RefreshStart(p)
  \/ \E p \in Procs : RefreshSettle(p)
  \/ ReturnSteps

SpecRegistry == Init /\ [][NextRegistry]_vars

\* Callers that log in and pass well-formed and malformed arguments to
\* selectUser, selectGameProfile, removeUserProfile and uploadSkin.
NextValidate ==
  \/ \E p \in Procs : LoginCall(p)
  \/ \E p \in Procs : LoginStart(p)
  \/ \E p \in Procs : LoginSettle(p)
  \/ \E p \in Procs : SelectUserCall(p)
  \/ \E p \in Procs : SelectUserMalformed(p)
  \/ \E p \in Procs : SelectUserStart(p)
  \/ \E p \in Procs : RefreshStart(p)
  \/ \E p \in Procs : RefreshSettle(p)
  \/ \E p \in Procs : UploadSkinCall(p)
  \/ \E p \in Procs : UploadSkinMalformed(p)
  \/ \E p \in Procs : UploadSkinStart(p)
  \/ \E p \in Procs : UploadSkinSettle(p)
  \/ \E p \in Procs : RemoveUserProfileCall(p)
  \/ \E p \in Procs : RemoveUserProfileMalformed(p)
  \/ \E p \in Procs : RemoveUserProfileSettle(p)
  \/ \E p \in Procs : SelectGameProfileCall(p)
  \/ ReturnSteps

SpecValidate == Init /\ [][NextValidate]_vars

\* Callers of the four operations that are guarded by a key and wait on a
\* provider: login, refreshUser, selectUser and uploadSkin.
NextGuard ==
  \/ \E p \in Procs : LoginCall(p)
  \/ \E p \in Procs : LoginStart(p)
  \/ \E p \in Procs : LoginSettle(p)
  \/ \E p \in Procs : RefreshUserCall(p)
  \/ \E p \in Procs : RefreshStart(p)
  \/ \E p \in Procs : RefreshSettle(p)
  \/ SelectSteps \/ SkinSteps \/ ReturnSteps

SpecGuard == Init /\ [][NextGuard]_vars

\* Callers of the guarded operations whose calls succeed, fail in the
\* provider, fail validation or are cancelled.
NextRelease ==
  \/ LoginSteps
  \/ \E p \in Procs : SelectUserCall(p)
  \/ \E p \in Procs : SelectUserMalformed(p)
  \/ \E p \in Procs : SelectUserStart(p)
  \/ \E p \in Procs : RefreshStart(p)
  \/ \E p \in Procs : RefreshSettle(p)
  \/ \E p \in Procs : AbortRefresh(p)
  \/ \E p \in Procs : UploadSkinDefault(p)
  \/ \E p \in Procs : UploadSkinMalformed(p)
  \/ \E p \in Procs : UploadSkinStart(p)
  \/ \E p \in Procs : UploadSkinSettle(p)
  \/ ReturnSteps

\* The event loop runs every continuation that is ready: a call that holds
\* its key starts. Every provider call ends, with a result or a failure.
FairRelease ==
  /\ WF_vars(\E p \in Procs : LoginStart(p))
  /\ WF_vars(\E p \in Procs : LoginSettle(p))
  /\ WF_vars(\E p \in Procs : SelectUserStart(p))
  /\ WF_vars(\E p \in Procs : RefreshStart(p))
  /\ WF_vars(\E p \in Procs : RefreshSettle(p))
  /\ WF_vars(\E p \in Procs : UploadSkinStart(p))
  /\ WF_vars(\E p \in Procs : UploadSkinSettle(p))

SpecRelease == Init /\ [][NextRelease]_vars /\ FairRelease

\* A caller that makes each call after the one before it has settled.
NextSerial ==
  \/ /\ AllSettled
     /\ \E p \in Procs :
          \/ LoginCall(p) \/ RefreshUserCall(p) \/ SelectUserCall(p)
          \/ UploadSkinCall(p) \/ RemoveUserProfileCall(p)
  \/ AllSettled /\ ProfileSteps
  \/ \E p \in Procs :
       \/ LoginStart(p) \/ LoginSettle(p) \/ RefreshStart(p) \/ RefreshSettle(p)
       \/ SelectUserStart(p) \/ UploadSkinStart(p) \/ UploadSkinSettle(p)
       \/ RemoveUserProfileSettle(p) \/ Return(p)
  \/ \E p \in Procs : AbortLogin(p) \/ AbortRefresh(p)

SpecSerial == Init /\ [][NextSerial]_vars

\* Callers that log in and select accounts, with the disk.
NextPersist ==
  \/ \E p \in Procs : LoginCall(p)
  \/ \E p \in Procs : LoginStart(p)
  \/ \E p \in Procs : LoginSettle(p)
  \/ \E p \in Procs : RefreshStart(p)
  \/ \E p \in Procs : RefreshSettle(p)
  \/ SelectSteps \/ ReturnSteps \/ DiskSteps

SpecPersist == Init /\ [][NextPersist]_vars

\* ---------------------------------------------------------------- claims

\* p's call settles in this step.
Settles(p) == InFlight(p) /\ proc'[p].pc = "done"

\* C1: the selected account id is empty or a key of the accounts mapping.
C1_SelectedUserIsAccount == selectedUser = "" \/ HasUser(users, selectedUser)

\* C2: every account's selectedProfile is empty or a key of its profiles.
C2_SelectedProfileIsProfile ==
  \A i \in DOMAIN users :
    users[i].selectedProfile = "" \/ users[i].selectedProfile \in users[i].profiles

LoginsAtProvider == { p \in Procs : proc[p].op = "login" /\ proc[p].pc = "provider" }

\* C3: at most one provider login is in progress at any moment; its controller
\* is the live one, and every other login in flight has not started its
\* provider call: it starts after the running one has settled, which stores
\* the account in the same step.
C3_LoginMutualExclusion ==
  /\ Cardinality(LoginsAtProvider) <= 1
  /\ \A p \in LoginsAtProvider :
       /\ loginController = p
       /\ \A q \in Procs \ {p} :
            proc[q].op = "login" /\ InFlight(q) => proc[q].pc = "queued"
  /\ LoginsAtProvider = {} => loginController = NoProc

\* A second login is at its provider after a first one succeeded, and the
\* first one's account is in the state.
C3_Witness ==
  \E p, q \in Procs :
    /\ proc[p].op = "login" /\ proc[p].pc = "done" /\ proc[p].result = "ok"
    /\ proc[q].op = "login" /\ proc[q].pc = "provider"
    /\ HasUser(users, proc[p].arg)

\* C4: a login whose abort signal fired before its provider call resolved
\* ends with a cancellation, and no step of a login other than a successful
\* settlement changes the session state.
C4_AbortedLoginLeavesState ==
  [][\A p \in Procs :
       /\ (proc[p].op = "login" /\ proc[p].pc = "provider" /\ proc[p].aborted
           /\ proc'[p] # proc[p])
          => /\ proc'[p].pc = "done" /\ proc'[p].result = "cancelled"
             /\ sessionVars' = sessionVars
       /\ (proc'[p].op = "login" /\ proc'[p] # proc[p]
           /\ ~(proc'[p].pc = "done" /\ proc'[p].result = "ok"))
          => sessionVars' = sessionVars]_vars

\* A login was aborted at its provider and has failed with a cancellation,
\* next to an account an earlier login stored.
C4_Witness ==
  \E p \in Procs :
    /\ proc[p].op = "login" /\ proc[p].pc = "done" /\ proc[p].result = "cancelled"
    /\ users # << >>

\* C5: a login, refreshUser, selectUser or uploadSkin call that fails leaves the
\* session state as it was before the call: the failing step changes nothing,
\* and after a failed selectUser the selection is the one it found.
C5_FailureLeavesState ==
  [][\A p \in Procs :
       (Settles(p) /\ proc'[p].result \in {"error", "cancelled"})
         => /\ sessionVars' = sessionVars
            /\ (proc[p].op = "selectUser" /\ proc[p].pc # "queued")
                 => selectedUser' = proc[p].prev]_vars

\* removeUserProfile(userId) runs its body in this step.
RemoveRuns(p, userId) ==
  /\ proc[p].pc = "idle"
  /\ proc'[p].op = "removeUserProfile" /\ proc'[p].pc = "running"
  /\ proc'[p].arg = userId

\* C6: with exactly two accounts, the removed one selected, removeUserProfile
\* deletes it and selects the other if that one has a non-empty
\* selectedProfile, and selects nothing otherwise.
C6_AutoSelectOnRemoval ==
  [][\A p \in Procs : \A a, b \in UserIds :
       (/\ a # b /\ UserKeys(users) = {a, b} /\ selectedUser = a
        /\ RemoveRuns(p, a))
         => /\ UserKeys(users') = {b}
            /\ selectedUser' = IF UserOf(users, b).selectedProfile # "" THEN b ELSE ""]_vars

\* A removeUserProfile call arrives in this step.
RemoveArrives(p, userId) ==
  /\ proc[p].pc = "idle"
  /\ proc'[p].op = "removeUserProfile" /\ proc'[p].arg = userId

RemovesRunning(userId) ==
  { q \in Procs : proc[q].op = "removeUserProfile" /\ proc[q].pc = "running"
                  /\ proc[q].arg = userId }

\* C7: a removeUserProfile call that overlaps an execution for the same id
\* joins it and changes nothing; a call for an id with no execution in flight
\* runs its deletion at once, whatever executions run for other ids; and a
\* joined call settles in the step, and with the outcome, of the execution it
\* joined. So at most one execution per id is in flight.
C7_SingleFlight ==
  /\ [](\A id \in UserIds : Cardinality(RemovesRunning(id)) <= 1)
  /\ [][\A p \in Procs : \A id \in UserIds :
          /\ (RemoveArrives(p, id) /\ RemovesRunning(id) # {})
               => proc'[p].pc = "joined" /\ sessionVars' = sessionVars
          /\ (RemoveArrives(p, id) /\ RemovesRunning(id) = {})
               => proc'[p].pc = "running" /\ ~HasUser(users', id)
          /\ (proc[p].op = "removeUserProfile" /\ proc[p].pc = "joined"
              /\ proc[p].arg = id /\ proc'[p] # proc[p])
               => /\ proc'[p].pc = "done"
                  /\ \E q \in RemovesRunning(id) :
                       proc'[q].pc = "done" /\ proc'[q].result = proc'[p].result]_vars

\* Two calls for the same id overlap: one has run the deletion of the account,
\* which was the selected one, and the other has joined it.
C7_Witness ==
  \E p, q \in Procs :
    /\ proc[p].op = "removeUserProfile" /\ proc[p].pc = "running"
    /\ proc[q].op = "removeUserProfile" /\ proc[q].pc = "joined"
    /\ proc[q].arg = proc[p].arg
    /\ proc[p].prev = proc[p].arg /\ ~HasUser(users, proc[p].arg)

NoWritePending == pendingWrites = {} /\ writing = << >>

\* C8: once every call has settled and every persistence write has completed,
\* the persisted document equals the in-memory session state.
C8_PersistedEqualsMemory ==
  (AllSettled /\ NoWritePending)
    => /\ file.exists
       /\ Deserialize(file.bytes)
            = UserData(users, selectedUser, clientToken, yggdrasilServices)

\* C9: a selectUser(id) that returns successfully either found id selected and
\* changed nothing, or leaves id selected with a refresh of that account
\* completed and stored.
C9_SelectUserRefreshes ==
  [][\A p \in Procs :
       (proc[p].op = "selectUser" /\ Settles(p) /\ proc'[p].result = "ok")
         => IF proc[p].pc = "queued"
              THEN proc[p].arg = selectedUser /\ sessionVars' = sessionVars
              ELSE /\ selectedUser' = proc[p].arg
                   /\ proc[p].pc = "refreshProvider"
                   /\ proc[p].target = proc[p].arg
                   /\ HasUser(users', proc[p].arg)]_vars

\* A refreshUser call is queued or at its provider after this step.
RefreshPending(id) ==
  \E p \in Procs :
    \/ proc'[p].op \in {"refreshUser", "selectUser"}
       /\ proc'[p].pc \in {"queued", "refreshQueued"}
       /\ \E i \in DOMAIN locks'["refreshUser"] : locks'["refreshUser"][i] = p
    \/ proc'[p].pc \in {"provider", "refreshProvider"}
       /\ proc'[p].op \in {"refreshUser", "selectUser"} /\ proc'[p].target = id

\* C10 as claimed: every change of the selected account id to a non-empty id
\* leaves a refresh of that account requested.
C10_EverySelectionChangeRefreshes ==
  [][(selectedUser' # selectedUser /\ selectedUser' # "")
       => RefreshPending(selectedUser')]_vars

\* C10 as amended: a selectUser that changes the selection calls refreshUser
\* in the same step, and does not return before that refreshUser has ended.
C10_SelectUserChangeRefreshes ==
  [][\A p \in Procs :
       /\ (proc[p].op = "selectUser" /\ proc[p].pc = "queued"
           /\ selectedUser' # selectedUser /\ proc'[p] # proc[p])
            => /\ proc'[p].pc = "refreshQueued"
               /\ locks'["refreshUser"] = Append(locks["refreshUser"], p)
       /\ (proc[p].op = "selectUser" /\ proc[p].pc = "refreshQueued"
           /\ proc'[p] # proc[p])
            => /\ Holds("refreshUser", p)
               /\ proc'[p].pc \in {"refreshProvider", "done"}]_vars

\* A selectUser has changed the selection and waits for its refreshUser.
C10_Witness ==
  \E p \in Procs :
    /\ proc[p].op = "selectUser" /\ proc[p].pc = "refreshQueued"
    /\ selectedUser = proc[p].arg /\ proc[p].prev # proc[p].arg
    /\ HasUser(users, proc[p].arg)

\* The entries of us other than the one under id, in order.
OtherUsers(us, id) == SelectSeq(us, LAMBDA u : u.id # id)

\* C11: when a login's provider call succeeds with account P, the step in
\* which login returns leaves P under P's id in the accounts (a new entry, or
\* in the place of the old one, every other entry as it was) and P's id
\* selected.
C11_LoginStoresAndSelects ==
  [][\A p \in Procs :
       (proc[p].op = "login" /\ Settles(p) /\ proc'[p].result = "ok")
         => /\ HasUser(users', proc[p].arg)
            /\ UserOf(users', proc[p].arg) \in ProviderAccounts(proc[p].arg)
            /\ Cardinality({ i \in DOMAIN users' : users'[i].id = proc[p].arg }) = 1
            /\ OtherUsers(users', proc[p].arg) = OtherUsers(users, proc[p].arg)
            /\ Len(users') = Len(users) + (IF HasUser(users, proc[p].arg) THEN 0 ELSE 1)
            /\ selectedUser' = proc[p].arg]_vars

\* A login has returned an account that replaced an older entry, next to a
\* second account, and it is the selected one.
C11_Witness ==
  \E p, q \in Procs :
    /\ p # q /\ proc[p].op = "login" /\ proc[q].op = "login"
    /\ proc[p].pc = "done" /\ proc[p].result = "ok"
    /\ proc[q].pc = "done" /\ proc[q].result = "ok"
    /\ proc[p].arg = proc[q].arg
    /\ selectedUser = proc[p].arg /\ Len(users) = 2
    /\ users[1].id = proc[p].arg

\* C12: a refreshUser that finds no account selected returns without error in
\* that step, without a provider call and without a refresh controller, and
\* changes nothing of the session state; one that finds a current user calls
\* the provider for it under a new controller, and when that call succeeds the
\* account's entry is the refreshed result, every other entry and the
\* selection as they were.
C12_RefreshUser ==
  [][\A p \in Procs :
       /\ (RefreshQueued(p) /\ selectedUser = "" /\ proc'[p] # proc[p])
            => /\ proc'[p].pc = "done" /\ proc'[p].result = "ok"
               /\ refreshController' = NoProc
               /\ sessionVars' = sessionVars
       /\ (RefreshQueued(p) /\ HasCurrentUser /\ proc'[p] # proc[p])
            => /\ proc'[p].pc \in {"provider", "refreshProvider"}
               /\ proc'[p].target = selectedUser
               /\ refreshController' = p
               /\ sessionVars' = sessionVars
       /\ (RefreshAwaiting(p) /\ Settles(p) /\ proc'[p].result = "ok")
            => /\ HasUser(users', proc[p].target)
               /\ UserOf(users', proc[p].target) \in ProviderAccounts(proc[p].target)
               /\ OtherUsers(users', proc[p].target) = OtherUsers(users, proc[p].target)
               /\ selectedUser' = selectedUser]_vars

\* One refreshUser has stored a refreshed account, and a later one, called
\* when accounts exist and none is selected, has returned without a provider
\* call.
C12_Witness ==
  \E p, q \in Procs :
    /\ proc[p].op = "refreshUser" /\ proc[p].pc = "done" /\ proc[p].result = "ok"
    /\ proc[p].target # ""
    /\ proc[q].op = "refreshUser" /\ proc[q].pc = "done" /\ proc[q].result = "ok"
    /\ proc[q].target = ""
    /\ selectedUser = "" /\ users # << >>

\* uploadSkin's body runs for p in this step, called without userId and
\* gameProfileId, with an account selected.
SkinDefaultsStart(p) ==
  /\ proc[p].op = "uploadSkin" /\ proc[p].pc = "queued" /\ proc'[p] # proc[p]
  /\ proc[p].arg = "" /\ proc[p].arg2 = ""
  /\ HasCurrentUser

\* What uploadSkin({userId: X, gameProfileId: P, skin}) hands to setSkin, for
\* X the selected account, P its selectedProfile and skin the one p was given.
SkinExplicit(p) ==
  SetSkinArgs(selectedUser, UserOf(users, selectedUser).selectedProfile, proc[p].skin)

\* p's step ends as a call that hands e to setSkin, or throws as e does.
SkinStartsAs(p, e) ==
  IF e.throws
    THEN proc'[p].pc = "done" /\ proc'[p].result = "error"
    ELSE /\ proc'[p].pc = "provider" /\ setSkinController' = p
         /\ proc'[p].target = e.user.id /\ proc'[p].profile = e.gameProfile
         /\ proc'[p].skin = e.options.skin

\* C13 as claimed: with X selected and X.selectedProfile = P, uploadSkin
\* without userId and gameProfileId calls setSkin with the account, the
\* profile and the options that uploadSkin with userId = X and
\* gameProfileId = P calls it with.
C13_SkinDefaultsSameOptions ==
  [][\A p \in Procs :
       SkinDefaultsStart(p)
         => /\ SkinStartsAs(p, SkinExplicit(p))
            /\ ~SkinExplicit(p).throws
                 => /\ proc'[p].arg = SkinExplicit(p).options.userId
                    /\ proc'[p].arg2 = SkinExplicit(p).options.gameProfileId]_vars

\* C13 as amended: it calls setSkin with the same account, profile and skin
\* (or throws when that call throws) and changes no session state in that
\* step; and a setSkin that succeeds for an account stores the returned
\* account under that id and changes nothing else, however the account was
\* named in the call.
C13_SkinDefaults ==
  [][\A p \in Procs :
       /\ SkinDefaultsStart(p)
            => SkinStartsAs(p, SkinExplicit(p)) /\ sessionVars' = sessionVars
       /\ (proc[p].op = "uploadSkin" /\ proc[p].pc = "provider" /\ Settles(p)
           /\ proc'[p].result = "ok")
            => /\ UserOf(users', proc[p].target) \in ProviderAccounts(proc[p].target)
               /\ OtherUsers(users', proc[p].target) = OtherUsers(users, proc[p].target)
               /\ selectedUser' = selectedUser]_vars

\* An uploadSkin called without userId, gameProfileId and slim flag has
\* stored the account setSkin returned for the selected account, next to
\* another account.
C13_Witness ==
  \E p \in Procs :
    /\ proc[p].op = "uploadSkin" /\ proc[p].pc = "done" /\ proc[p].result = "ok"
    /\ proc[p].arg = "" /\ proc[p].arg2 = "" /\ proc[p].skin = "false"
    /\ proc[p].target = selectedUser /\ proc[p].profile = "p1"
    /\ Len(users) = 2

\* The abort operations of the service.
AbortSteps == \E a \in Procs : AbortLogin(a) \/ AbortRefresh(a)

\* p waits on a provider call of its category.
AtProvider(p) == proc[p].pc \in {"provider", "refreshProvider"}

\* C14: whenever a login, a refresh or a skin upload waits on its provider
\* call with its signal not fired (and one more call can be made), an abort
\* operation can be called that fires the signal of that call and of no
\* other, after which the call can only fail with a cancellation.
C14_EveryCategoryAborts ==
  \A p \in Procs :
    (AtProvider(p) /\ ~proc[p].aborted /\ \E a \in Procs : FreeSlot(a))
      => ENABLED (/\ AbortSteps
                  /\ proc'[p].aborted
                  /\ ProviderOutcomes(proc'[p].aborted) = {"cancelled"}
                  /\ \A q \in Procs \ {p} :
                       AtProvider(q) => proc'[q].aborted = proc[q].aborted)

\* An abort call of operation op arrives as call a in this step.
AbortArrives(a, op) == proc[a].pc = "idle" /\ proc'[a].op = op

RefreshesAtProvider == { p \in Procs : RefreshAwaiting(p) }

\* Nothing but call a's own record changes in this step.
OnlyCallChanges(a) ==
  /\ \A q \in Procs \ {a} : proc'[q] = proc[q]
  /\ UNCHANGED <<sessionVars, accountSystems, modsVars, controllerVars, locks, diskVars>>

\* C15: an abort call made when no operation of its category waits on its
\* provider changes no state (but for the record of the abort call itself,
\* which fired no signal); and no later operation is cancelled by it: a
\* call's signal is not fired when its provider call starts, it fires only in
\* the step of an abort call of its category made while it waits on its
\* provider, and only a call whose signal fired ends with a cancellation.
C15_IdleAbortIsNoOp ==
  [][/\ \A a \in Procs :
          /\ (AbortArrives(a, "abortLogin") /\ LoginsAtProvider = {})
               => OnlyCallChanges(a) /\ ~proc'[a].aborted
          /\ (AbortArrives(a, "abortRefresh") /\ RefreshesAtProvider = {})
               => OnlyCallChanges(a) /\ ~proc'[a].aborted
     /\ \A p \in Procs :
          /\ (~AtProvider(p) /\ proc'[p].pc \in {"provider", "refreshProvider"})
               => ~proc'[p].aborted
          /\ (AtProvider(p) /\ ~proc[p].aborted /\ proc'[p].aborted)
               => \E a \in Procs :
                    AbortArrives(a, IF proc[p].op = "login" THEN "abortLogin"
                                                            ELSE "abortRefresh")
          /\ (Settles(p) /\ proc'[p].result = "cancelled") => proc[p].aborted]_vars

\* An abortLogin was called with no login in flight, after an earlier login
\* had finished, and a login that started later waits on its provider with
\* its signal not fired.
C15_Witness ==
  \E a, p \in Procs :
    /\ proc[a].op = "abortLogin" /\ proc[a].pc = "done" /\ ~proc[a].aborted
    /\ proc[p].op = "login" /\ proc[p].pc = "provider" /\ ~proc[p].aborted
    /\ loginController = p
    /\ users # << >>

\* The store's read() returns in this step.
StoreReadReturns == store.op = "read" /\ store.pc = "readFile" /\ store'.pc = "done"

\* C16: a read that follows a write of a document with two accounts and a
\* non-empty endpoint list returns a document equal to the one written.
C16_WriteReadRoundTrip ==
  [][(/\ StoreReadReturns /\ store.prev = "write"
      /\ Len(store.data.users) = 2 /\ store.data.yggdrasilServices # << >>)
       => store'.result = store.data]_vars

\* A document with two accounts, account "B" selected and two endpoints was
\* written, and the read that followed returned it.
C16_Witness ==
  /\ store.op = "read" /\ store.pc = "done" /\ store.prev = "write"
  /\ Len(store.data.users) = 2 /\ Len(store.data.yggdrasilServices) = 2
  /\ store.data.selectedUser = "B"
  /\ store.result = store.data
  /\ file = FileOf(Serialize(store.data))

\* The legacy paths that hold a file.
ExistingLegacy == { i \in DOMAIN legacy : legacy[i].exists }

FirstExistingLegacy == CHOOSE i \in ExistingLegacy : \A j \in ExistingLegacy : i <= j

\* C17: a read that found no file at the primary path, with a file at some
\* legacy path, has made one copy, of the first legacy file in list order
\* that exists, to the primary path, and returns that file's content; a read
\* that follows a read finds the primary file, copies nothing and returns the
\* same content; and no step changes a legacy file.
C17_LegacyMigration ==
  [][/\ legacy' = legacy
     /\ (StoreReadReturns /\ store.i > 0 /\ ExistingLegacy # {})
          => /\ store.copies = 1 /\ store.i = FirstExistingLegacy
             /\ file = legacy[FirstExistingLegacy]
             /\ store'.result = Deserialize(legacy[FirstExistingLegacy].bytes)
     /\ (StoreReadReturns /\ store.prev = "read" /\ ExistingLegacy # {})
          => /\ store.i = 0 /\ store.copies = 0
             /\ store'.result = store.result]_vars

\* The second of two reads has returned: the primary path holds the copy of
\* the file at the second legacy path, the first legacy path holding none,
\* and both reads returned that file's content.
C17_Witness ==
  /\ store.op = "read" /\ store.pc = "done" /\ store.prev = "read"
  /\ store.copies = 0
  /\ ~legacy[1].exists /\ legacy[2] = FileOf(Serialize(LegacyDoc))
  /\ file = legacy[2]
  /\ store.result = LegacyDoc

\* The entries of ygg other than those with the url, in order.
OtherEndpoints(ygg, url) == SelectSeq(ygg, LAMBDA a : a.url # url)

\* C18: addYggdrasilAccountSystem(url) changes the endpoint list in no step
\* but the one in which the descriptor has been loaded, where the descriptor
\* is in the list under its url and the other entries are as they were; when
\* the url is no url or the load fails, the call fails and the list is as it
\* was; so a url enters the list only with a successful load of it.
\* removeYggdrasilAccountSystem(url) leaves the entries whose url is not the
\* argument, in their order.
C18_EndpointAddRemove ==
  [][/\ \A p \in Procs :
          /\ (proc[p].pc = "idle" /\ proc'[p].op = "addYggdrasilAccountSystem")
               => /\ yggdrasilServices' = yggdrasilServices
                  /\ IF ValidUrl(StripPrefix(proc'[p].arg))
                       THEN proc'[p].pc = "loading"
                       ELSE proc'[p].pc = "done" /\ proc'[p].result = "error"
          /\ (proc[p].op = "addYggdrasilAccountSystem" /\ Settles(p)
              /\ proc'[p].result = "ok")
               => /\ \E i \in DOMAIN yggdrasilServices' :
                       yggdrasilServices'[i].url = proc[p].target
                  /\ OtherEndpoints(yggdrasilServices', proc[p].target)
                       = OtherEndpoints(yggdrasilServices, proc[p].target)
          /\ (proc[p].op = "addYggdrasilAccountSystem" /\ Settles(p)
              /\ proc'[p].result # "ok")
               => yggdrasilServices' = yggdrasilServices
          /\ (proc[p].pc = "idle" /\ proc'[p].op = "removeYggdrasilAccountSystem")
               => yggdrasilServices' = OtherEndpoints(yggdrasilServices, proc'[p].arg)
     /\ \A u \in EndpointUrls(yggdrasilServices') \ EndpointUrls(yggdrasilServices) :
          \E p \in Procs :
            /\ proc[p].op = "addYggdrasilAccountSystem" /\ proc[p].target = u
            /\ Settles(p) /\ proc'[p].result = "ok"]_vars

\* A remove of the second url has returned, an add of the second url has
\* failed at the load, and the list holds the first url's entry only.
C18_Witness ==
  \E p, q \in Procs :
    /\ proc[p].op = "addYggdrasilAccountSystem" /\ proc[p].pc = "done"
    /\ proc[p].result = "error" /\ proc[p].target = "u2"
    /\ proc[q].op = "removeYggdrasilAccountSystem" /\ proc[q].pc = "done"
    /\ proc[q].arg = "u2"
    /\ EndpointUrls(yggdrasilServices) = {"u1"}

\* C19: a refresh whose provider call fails, with an error or with a
\* cancellation, changes nothing of the accounts in the step in which it
\* fails, as it changed nothing when it started: the account it was about,
\* if present, is present after it with the data it had.
C19_FailedRefreshKeepsAccount ==
  [][\A p \in Procs :
       /\ (RefreshAwaiting(p) /\ Settles(p) /\ proc'[p].result # "ok")
            => /\ proc'[p].result \in {"error", "cancelled"}
               /\ users' = users
               /\ HasUser(users, proc[p].target)
                    => /\ HasUser(users', proc[p].target)
                       /\ UserOf(users', proc[p].target) = UserOf(users, proc[p].target)
       /\ (RefreshQueued(p) /\ proc'[p] # proc[p]) => users' = users]_vars

\* Of two refreshes of the selected account, one has failed with an error
\* and one with a cancellation, and the account is in the accounts.
C19_Witness ==
  \E p, q \in Procs :
    /\ proc[p].op = "refreshUser" /\ proc[p].pc = "done" /\ proc[p].result = "error"
    /\ proc[q].op = "refreshUser" /\ proc[q].pc = "done" /\ proc[q].result = "cancelled"
    /\ proc[p].target = selectedUser /\ proc[q].target = selectedUser
    /\ HasCurrentUser

\* The system the registry holds under the name, or the built-in one.
RegisteredOrDefault(name) ==
  IF accountSystems[name] # "none" THEN accountSystems[name] ELSE yggdrasilAccountSystem

\* C20: a login resolves the system registered last under options.service, and
\* a refresh the one registered last under the account's authService, or the
\* built-in system when none is registered under the name; the call goes on
\* to that system's method and does not fail at the resolution.
C20_ResolveRegisteredOrDefault ==
  [][\A p \in Procs :
       /\ (proc[p].op = "login" /\ proc[p].pc = "queued" /\ proc'[p] # proc[p])
            => /\ proc'[p].system = RegisteredOrDefault(proc[p].service)
               /\ proc'[p].pc = "provider"
       /\ (RefreshQueued(p) /\ HasCurrentUser /\ proc'[p] # proc[p])
            => /\ proc'[p].system
                    = RegisteredOrDefault(UserOf(users, selectedUser).authService)
               /\ proc'[p].pc \in {"provider", "refreshProvider"}]_vars

\* C21: a removeUserProfile call for an id that is no key of the accounts
\* does not fail and leaves the accounts, the selected account id and the
\* endpoint list as they were; one for an existing account that is not the
\* selected one leaves the selected account id as it was.
C21_RemoveUnknownIsNoOp ==
  [][\A p \in Procs : \A id \in UserIds :
       /\ (RemoveArrives(p, id) /\ ~HasUser(users, id))
            => /\ proc'[p].pc \in {"running", "joined"}
               /\ users' = users
               /\ selectedUser' = selectedUser
               /\ yggdrasilServices' = yggdrasilServices
       /\ (RemoveArrives(p, id) /\ HasUser(users, id) /\ selectedUser # id)
            => selectedUser' = selectedUser
       /\ (proc[p].op = "removeUserProfile" /\ Settles(p))
            => proc'[p].result = "ok"]_vars

\* The call r has a malformed argument.
Malformed(r) ==
  \/ /\ r.op \in {"selectUser", "selectGameProfile", "removeUserProfile"}
     /\ ~RequireString(r.arg)
  \/ r.op = "uploadSkin" /\ ~RequireObject(r.options)

\* C22: a selectUser, selectGameProfile or removeUserProfile call with an
\* empty or non-string id, and an uploadSkin call with options that are no
\* object, changes no session state and no controller in any of its steps,
\* never reaches a provider call and ends with an error in the step in which
\* its body runs; so does an uploadSkin whose target account does not exist
\* when its body runs.
C22_MalformedInputRejected ==
  [][\A p \in Procs :
       /\ (Malformed(proc'[p]) /\ proc'[p] # proc[p])
            => /\ sessionVars' = sessionVars
               /\ controllerVars' = controllerVars
               /\ proc'[p].pc \in {"queued", "running", "joined", "done"}
               /\ proc'[p].pc = "running" => proc'[p].result = "error"
               /\ proc'[p].pc = "done" => proc'[p].result = "error"
               /\ proc[p].pc = "queued" => proc'[p].pc = "done"
       /\ (/\ proc[p].op = "uploadSkin" /\ proc[p].pc = "queued" /\ proc'[p] # proc[p]
           /\ ~HasUser(users, SkinUserId(p)))
            => /\ proc'[p].pc = "done" /\ proc'[p].result = "error"
               /\ sessionVars' = sessionVars
               /\ controllerVars' = controllerVars]_vars

\* With an account stored and selected, an uploadSkin for an id that has no
\* account and a selectUser with a malformed id have both failed.
C22_Witness ==
  \E p, q \in Procs :
    /\ proc[p].op = "uploadSkin" /\ proc[p].pc = "done" /\ proc[p].result = "error"
    /\ proc[p].arg # "" /\ ~HasUser(users, proc[p].arg)
    /\ proc[q].op = "selectUser" /\ proc[q].pc = "done" /\ proc[q].result = "error"
    /\ ~RequireString(proc[q].arg)
    /\ HasCurrentUser

SkinsAtProvider == { p \in Procs : proc[p].op = "uploadSkin" /\ proc[p].pc = "provider" }

\* The slot holds the token of the one call in S, or none when S is empty.
SlotTracks(controller, S) ==
  /\ Cardinality(S) <= 1
  /\ controller # NoProc <=> S # {}
  /\ controller # NoProc => controller \in S

\* C23: each category's slot holds at most one token; it holds the token of
\* an operation of the category exactly while that operation waits on its
\* provider call, and none once that call has completed, failed or ended
\* with a cancellation.
C23_TokenWhileWaiting ==
  /\ SlotTracks(loginController, LoginsAtProvider)
  /\ SlotTracks(refreshController, RefreshesAtProvider)
  /\ SlotTracks(setSkinController, SkinsAtProvider)

\* The call q waits for key k: it is in the key's queue and its body, or the
\* part of its body under k, has not run.
WaitsFor(q, k) ==
  \/ k \in {"login", "uploadSkin", "selectUser"} /\ proc[q].op = k /\ proc[q].pc = "queued"
  \/ k = "refreshUser" /\ RefreshQueued(q)

\* The call q has started under key k and has not finished.
RunsUnder(q, k) ==
  \/ k \in {"login", "uploadSkin"} /\ proc[q].op = k /\ proc[q].pc = "provider"
  \/ k = "refreshUser" /\ RefreshAwaiting(q)
  \/ /\ k = "selectUser" /\ proc[q].op = "selectUser"
     /\ proc[q].pc \in {"refreshQueued", "refreshProvider"}

\* The call q has started under key k after this step.
RunsUnderNext(q, k) ==
  \/ k \in {"login", "uploadSkin"} /\ proc'[q].op = k /\ proc'[q].pc = "provider"
  \/ /\ k = "refreshUser"
     /\ \/ proc'[q].op = "refreshUser" /\ proc'[q].pc = "provider"
        \/ proc'[q].op = "selectUser" /\ proc'[q].pc = "refreshProvider"
  \/ /\ k = "selectUser" /\ proc'[q].op = "selectUser"
     /\ proc'[q].pc \in {"refreshQueued", "refreshProvider"}

GuardedKeys == {"login", "refreshUser", "selectUser", "uploadSkin"}

\* C24: for each of the keys login, refreshUser, selectUser and uploadSkin,
\* the key's queue holds the calls in the order they were made (a call joins
\* at the end, and the queue changes otherwise only by losing its head when
\* the head's call has ended); a call starts only as the head, when every
\* call made before it under the key has ended, so that no other call runs
\* under the key; and a call that has ended takes no further step, so all its
\* mutations are in the state the next call reads.
C24_SameKeyInCallOrder ==
  /\ [](\A k \in GuardedKeys : \A i \in DOMAIN locks[k] :
          /\ WaitsFor(locks[k][i], k) \/ RunsUnder(locks[k][i], k)
          /\ RunsUnder(locks[k][i], k) => i = 1
          /\ \A j \in DOMAIN locks[k] : locks[k][i] = locks[k][j] => i = j)
  /\ [](\A k \in GuardedKeys : \A q \in Procs :
          (WaitsFor(q, k) \/ RunsUnder(q, k))
            => \E i \in DOMAIN locks[k] : locks[k][i] = q)
  /\ [][\A k \in GuardedKeys :
          /\ \/ locks'[k] = locks[k]
             \/ \E p \in Procs : ~WaitsFor(p, k) /\ ~RunsUnder(p, k)
                                 /\ locks'[k] = Append(locks[k], p)
             \/ /\ locks[k] # << >> /\ locks'[k] = Tail(locks[k])
                /\ proc'[Head(locks[k])].pc = "done"
          /\ \A p \in Procs :
               (~RunsUnder(p, k) /\ RunsUnderNext(p, k))
                 => /\ locks[k] # << >> /\ Head(locks[k]) = p
                    /\ \A q \in Procs \ {p} : ~RunsUnder(q, k)]_vars
  /\ [][\A p \in Procs :
          proc[p].pc = "done" => (proc'[p] = proc[p] \/ proc'[p] = Idle)]_vars

\* Of two selectUser calls, the first has ended with its account selected and
\* refreshed, and the second runs and found the first one's selection.
C24_Witness ==
  \E p, q \in Procs :
    /\ proc[p].op = "selectUser" /\ proc[p].pc = "done" /\ proc[p].result = "ok"
    /\ proc[p].target = proc[p].arg
    /\ proc[q].op = "selectUser" /\ proc[q].pc = "refreshProvider"
    /\ proc[q].prev = proc[p].arg /\ proc[q].arg # proc[p].arg
    /\ HasUser(users, proc[p].arg)

\* The call p is in the queue of key k.
Queued(lk, k, p) == \E i \in DOMAIN lk[k] : lk[k][i] = p

\* C25: in the step in which a guarded call ends, with a result, a provider
\* failure, a validation failure or a cancellation, it leaves the queue of
\* every key it held; a call that ends at its provider ends with what the
\* provider call ended with, a cancellation if its signal had fired; and
\* every call that waits for a key eventually stops waiting: it starts.
C25_KeyReleasedOnCompletion ==
  /\ [][\A p \in Procs :
          /\ Settles(p) => \A k \in GuardedKeys : ~Queued(locks', k, p)
          /\ (Settles(p) /\ AtProvider(p))
               => proc'[p].result \in ProviderOutcomes(proc[p].aborted)]_vars
  /\ \A p \in Procs : \A k \in GuardedKeys :
       WaitsFor(p, k) ~> ~WaitsFor(p, k)

\* An uploadSkin holds the key and waits on its provider while an uploadSkin
\* with options that are no object has failed its validation.
C25_Witness ==
  \E p \in Procs :
    /\ proc[p].op = "uploadSkin" /\ proc[p].pc = "done" /\ proc[p].result = "error"
    /\ ~RequireObject(proc[p].options)
    /\ \E q \in Procs :
         /\ proc[q].op = "uploadSkin" /\ proc[q].pc = "provider"
         /\ Holds("uploadSkin", q)

\* ------------------------------------------------ C26: the order of writes

\* One caller adding and removing endpoints, one call after the other, while
\* the disk works: every state change of these operations is a subscribed
\* mutation.
NextEndpointDisk ==
  \/ \E p \in {1} : AddYggdrasilCall(p)
  \/ \E p \in {1} : AddYggdrasilSettle(p)
  \/ \E p \in {1} : RemoveYggdrasilCall(p)
  \/ \E p \in {1} : Return(p)
  \/ DiskSteps

SpecEndpointDisk == Init /\ [][NextEndpointDisk]_vars

\* C26: writes started by successive mutations do not complete out of order:
\* once no write is pending, the file holds the endpoints of the latest
\* mutation, never those of an older snapshot.
C26_LatestSnapshotWins ==
  NoWritePending
    => /\ file.exists
       /\ Deserialize(file.bytes).yggdrasilServices = yggdrasilServices

\* ------------------------------------------------ C27: crash-safe replace

\* C27: at every point of a write, a crash between its steps included, the
\* path holds what it held before the step (the previous document, or no
\* file) or the complete new document: no step of a write leaves an empty or
\* partial file at the path.
C27_WriteReplacesAtomically ==
  [][(store.op = "write" /\ store.pc \in {"ensureFile", "writeFile"})
       => file' \in {file, FileOf(Serialize(store.data))}]_vars

\* -------------------------------------------------------------- startup

\* The urls of the two endpoints seeded when none is configured.
DefaultUrls == {"u1", "u2"}

\* What user.json can hold when the launcher starts: nothing, or a document
\* an earlier run wrote.
StartupFiles == {Missing} \cup { FileOf(Serialize(d)) : d \in Docs }

\* The service is constructed over any files: the state is a new UserState and
\* the initializer has called userFile.read().
InitStartup ==
  /\ users = << >>
  /\ selectedUser = ""
  /\ clientToken = ""
  /\ yggdrasilServices = << >>
  /\ loginController = NoProc
  /\ refreshController = NoProc
  /\ setSkinController = NoProc
  /\ accountSystems = [name \in ServiceNames |-> "none"]
  /\ proc = [p \in Procs |-> Idle]
  /\ locks = [k \in LockKeys \cup UserIds |-> << >>]
  /\ pendingWrites = {}
  /\ writing = << >>
  /\ store = [StoreIdle EXCEPT !.op = "read", !.pc = "missing"]
  /\ InitMods
  /\ file \in StartupFiles
  /\ legacy \in [1..NumLegacy -> LegacyContents]

\* this.refreshUser() and, with no account selected and an account in the
\* state, this.selectUser(id of the first account): the calls in flight ...
StartupCalls(us, sel) ==
  IF sel = "" /\ us # << >>
    THEN [proc EXCEPT ![1] = [Idle EXCEPT !.op = "refreshUser", !.pc = "queued"],
                      ![2] = [Idle EXCEPT !.op = "selectUser", !.arg = us[1].id,
                                          !.pc = "queued"]]
    ELSE [proc EXCEPT ![1] = [Idle EXCEPT !.op = "refreshUser", !.pc = "queued"]]

\* ... and the queues they wait in.
StartupLocks(us, sel) ==
  IF sel = "" /\ us # << >>
    THEN Enqueue(Enqueue(locks, LockKey("refreshUser", ""), 1),
                 LockKey("selectUser", us[1].id), 2)
    ELSE Enqueue(locks, LockKey("refreshUser", ""), 1)

\* read() returned: preprocessUserData fills userData from the document, the
\* mutation userData puts it into the state, and either the two default
\* descriptors are requested or refreshUser and selectUser are called.
StartupLoad ==
  /\ store.op = "read" /\ store.pc = "done"
  /\ \A p \in Procs : proc[p].pc = "idle"
  /\ users' = store.result.users
  /\ selectedUser' = store.result.selectedUser
  /\ clientToken' = store.result.clientToken
  /\ yggdrasilServices' = store.result.yggdrasilServices
  /\ IF store.result.yggdrasilServices = << >>
       THEN /\ store' = [store EXCEPT !.op = "initialize", !.pc = "seeding",
                                      !.loading = DefaultUrls, !.failed = FALSE]
            /\ UNCHANGED <<proc, locks>>
       ELSE /\ store' = [store EXCEPT !.op = "initialize", !.pc = "started"]
            /\ proc' = StartupCalls(store.result.users, store.result.selectedUser)
            /\ locks' = StartupLocks(store.result.users, store.result.selectedUser)
  /\ UNCHANGED <<accountSystems, modsVars, controllerVars, pendingWrites, writing, file, legacy>>

\* One of the two loadYggdrasilApiProfile calls settled: its descriptor is
\* put into the list, or Promise.all rejects. When both are put, the then
\* callback calls refreshUser and selectUser; a rejection has no handler.
StartupSeedSettle ==
  /\ store.op = "initialize" /\ store.pc = "seeding"
  /\ \E url \in store.loading, r \in LoadOutcomes :
       /\ IF r = "ok"
            THEN \E m \in Metas :
                   /\ yggdrasilServices' =
                        userYggdrasilServicePut(yggdrasilServices, Endpoint(url, m))
                   /\ pendingWrites' \in Tracked({"userYggdrasilServicePut"})
            ELSE UNCHANGED <<yggdrasilServices, pendingWrites>>
       /\ IF store.loading # {url}
            THEN /\ store' = [store EXCEPT !.loading = @ \ {url},
                                           !.failed = @ \/ r = "error"]
                 /\ UNCHANGED <<proc, locks>>
            ELSE IF store.failed \/ r = "error"
            THEN /\ store' = [store EXCEPT !.pc = "rejected", !.loading = {},
                                           !.failed = TRUE]
                 /\ UNCHANGED <<proc, locks>>
            ELSE /\ store' = [store EXCEPT !.pc = "started", !.loading = {}]
                 /\ proc' = StartupCalls(users, selectedUser)
                 /\ locks' = StartupLocks(users, selectedUser)
  /\ UNCHANGED <<users, selectedUser, clientToken, accountSystems, modsVars, controllerVars,
                 writing, file, legacy>>

\* The launcher starts: the initializer and the calls it makes.
NextStartup ==
  \/ StoreReadMissing \/ StoreReadCopy \/ StoreReadFile
  \/ StartupLoad \/ StartupSeedSettle
  \/ \E p \in Procs : RefreshStart(p)
  \/ \E p \in Procs : RefreshSettle(p)
  \/ \E p \in Procs : SelectUserStart(p)

\* The disk answers a read, a request for a descriptor and a provider call
\* settle, and a continuation that is ready runs.
FairStartup ==
  /\ WF_vars(StoreReadMissing \/ StoreReadCopy \/ StoreReadFile)
  /\ WF_vars(StartupLoad)
  /\ WF_vars(StartupSeedSettle)
  /\ WF_vars(\E p \in Procs : RefreshStart(p))
  /\ WF_vars(\E p \in Procs : RefreshSettle(p))
  /\ WF_vars(\E p \in Procs : SelectUserStart(p))

SpecStartup == InitStartup /\ [][NextStartup]_vars /\ FairStartup

\* The persisted state has been loaded into the state.
Loaded == store.op = "initialize"

\* The initializer has called refreshUser().
RefreshTriggered == store.op = "initialize" /\ store.pc = "started"

\* C28: after the persisted state is loaded at startup, with the default
\* endpoints seeded first or with endpoints present, refreshUser is
\* eventually called, and with no account selected and an account in the
\* state an account of the state eventually becomes selected, also when a
\* default descriptor fails to load.
C28_StartupRefreshesAndSelects ==
  /\ Loaded ~> RefreshTriggered
  /\ (Loaded /\ selectedUser = "" /\ users # << >>) ~> (selectedUser \in UserKeys(users))

\* ------------------------------------------------ C29: a write that fails

\* Logins while the disk works and writes fail.
NextWriteFail ==
  \/ \E p \in Procs : LoginCall(p)
  \/ \E p \in Procs : LoginStart(p)
  \/ \E p \in Procs : LoginSettle(p)
  \/ ReturnSteps \/ DiskSteps
  \/ WriteEnsureFails \/ WriteFileFails

SpecWriteFail == Init /\ [][NextWriteFail]_vars

\* A step in which a write ends without the file having its document: a
\* pending run is gone with nothing handed to writeFile, or a document
\* handed to writeFile is gone with the file as it was.
WriteFailed ==
  \/ /\ pendingWrites' # pendingWrites /\ pendingWrites' \subseteq pendingWrites
     /\ writing' = writing
  \/ /\ writing # << >> /\ writing' = Tail(writing)
     /\ file' = file /\ file # FileOf(Head(writing))

\* C29: a persistence write that fails neither changes nor rolls back the
\* in-memory session state and changes no call: the operation whose mutation
\* started the write keeps its position and its outcome.
C29_WriteFailureLeavesStateAndOutcome ==
  [][WriteFailed => UNCHANGED <<sessionVars, proc, locks, controllerVars>>]_vars

\* A login has succeeded and returned "ok", no write is pending, and the file
\* has none of the accounts the state has: the write of the login failed.
C29_Witness ==
  /\ NoWritePending
  /\ users # << >>
  /\ file.exists /\ Deserialize(file.bytes).users = << >>
  /\ \E p \in Procs : proc[p].op = "login" /\ proc[p].pc = "done" /\ proc[p].result = "ok"

\* ------------------------------------------------ C30: the client token

\* One caller making every public operation, one call after the other, while
\* the disk works: the account is "A", the endpoint added is the first one.
NextToken ==
  \/ \E p \in {1} : LoginWith(p, "A", ServiceOf("A")) \/ LoginStart(p) \/ LoginSettle(p)
  \/ \E p \in {1} : RefreshUserCall(p) \/ RefreshStart(p) \/ RefreshSettle(p)
  \/ \E p \in {1} : Call(p, "selectUser", "A", "") \/ SelectUserStart(p)
  \/ \E p \in {1} : UploadSkinDefault(p) \/ UploadSkinStart(p) \/ UploadSkinSettle(p)
  \/ \E p \in {1} : RemoveUserProfileWith(p, "A") \/ RemoveUserProfileSettle(p)
  \/ \E p \in {1} : SelectGameProfileCall(p)
  \/ \E p \in {1} : AddYggdrasilWith(p, "u1") \/ AddYggdrasilSettle(p)
  \/ \E p \in {1} : RemoveYggdrasilCall(p)
  \/ \E p \in {1} : Return(p)
  \/ DiskSteps

SpecToken == Init /\ [][NextToken]_vars

\* The client token of a serialized document.
TokenOf(bytes) == Deserialize(bytes).clientToken

\* C30: after the startup load no public operation changes the client token,
\* and every snapshot handed to the disk or written to the file carries the
\* client token of the in-memory state.
C30_ClientTokenStable ==
  /\ [][clientToken' = clientToken]_vars
  /\ [](/\ \A i \in DOMAIN writing : TokenOf(writing[i]) = clientToken
        /\ file.exists => TokenOf(file.bytes) = clientToken)

\* A snapshot with an account and an endpoint, both put there by public
\* operations, is the file's content.
C30_Witness ==
  /\ file.exists
  /\ Deserialize(file.bytes).users # << >>
  /\ Deserialize(file.bytes).yggdrasilServices # << >>

\* ------------------------------------------------ C31: removal and refresh

\* C31: an account removed while a refreshUser or an uploadSkin for it waits
\* on its provider call is not put back when that call succeeds: an id that
\* is not a key of the accounts mapping becomes one only by a login.
C31_RemovedStaysRemoved ==
  [][\A id \in UserIds :
       (~HasUser(users, id) /\ HasUser(users', id))
         => \E p \in Procs : proc[p].op = "login" /\ Settles(p)]_vars

\* ------------------------------------------------ C32: no deadlock on keys

\* Callers of every guarded operation, with aborts, their calls overlapping.
NextComplete ==
  \/ LoginSteps \/ RefreshSteps \/ SelectSteps
  \/ \E p \in Procs : UploadSkinDefault(p)
  \/ \E p \in Procs : UploadSkinStart(p)
  \/ \E p \in Procs : UploadSkinSettle(p)
  \/ ReturnSteps

SpecComplete == Init /\ [][NextComplete]_vars /\ FairRelease

\* C32: no call that holds the key "refreshUser" waits for the key
\* "selectUser", and, every provider call ending with a result, a failure or
\* a cancellation, every call that has started eventually completes.
C32_EveryCallCompletes ==
  /\ [](\A p \in Procs : ~(Holds("refreshUser", p) /\ WaitsFor(p, "selectUser")))
  /\ \A p \in Procs : InFlight(p) ~> (proc[p].pc = "done")

\* A selectUser holds the key "selectUser" and waits for the key
\* "refreshUser", which a refreshUser waiting on its provider holds.
C32_Witness ==
  \E p, q \in Procs :
    /\ proc[p].op = "selectUser" /\ proc[p].pc = "refreshQueued"
    /\ Holds("selectUser", p) /\ ~Holds("refreshUser", p)
    /\ proc[q].op = "refreshUser" /\ proc[q].pc = "provider"
    /\ Holds("refreshUser", q)

\* -------------------------------------------------- InstanceModsService

\* Number of mount calls made.
MaxMounts == 3

\* The instance paths callers pass and select.
InstancePaths == {"i1", "i2"}

userVars == <<sessionVars, accountSystems, controllerVars, proc, locks, diskVars>>

\* What the awaits of mount can end with: all resolve, one of ensureDir,
\* whenReady and scanMods rejects, or watch throws.
MountOutcomes == {"ok", "error", "watchError"}

\* The call of mount that holds the key "instance:mods": the first one in
\* call order that has not ended, or 0.
MountHead ==
  IF \E i \in DOMAIN mounts : mounts[i].pc \notin {"done", "failed"}
    THEN CHOOSE i \in DOMAIN mounts :
           /\ mounts[i].pc \notin {"done", "failed"}
           /\ \A j \in DOMAIN mounts : j < i => mounts[j].pc \in {"done", "failed"}
    ELSE 0

\* The watchers that are open.
OpenWatchers == { w \in DOMAIN watchers : watchers[w].open }

\* this.modsWatcher.close(), if there is one.
CloseModsWatcher ==
  IF modsWatcher # 0 THEN [watchers EXCEPT ![modsWatcher].open = FALSE] ELSE watchers

\* mount(instancePath) is called: it queues on the key.
MountCalled(instancePath) == Append(mounts, [path |-> instancePath, pc |-> "queued"])

MountCall ==
  \E instancePath \in InstancePaths :
    /\ Len(mounts) < MaxMounts
    /\ mounts' = MountCalled(instancePath)
    /\ UNCHANGED <<userVars, instance, modsWatcher, watchers, path>>

\* refresh(force): mount(basePath) is called when forced, when the state's
\* instance is not the selected one, or when there is no watcher.
RefreshMounts(force, basePath) ==
  IF force \/ instance # basePath \/ modsWatcher = 0
    THEN MountCalled(basePath) ELSE mounts

RefreshCall ==
  \E force \in BOOLEAN :
    /\ path # ""
    /\ Len(mounts) < MaxMounts
    /\ mounts' = RefreshMounts(force, path)
    /\ UNCHANGED <<userVars, instance, modsWatcher, watchers, path>>

\* An instance is selected: the subscriber of instanceSelect calls refresh().
InstanceSelect ==
  \E selected \in InstancePaths :
    /\ Len(mounts) < MaxMounts
    /\ path' = selected
    /\ mounts' = RefreshMounts(FALSE, selected)
    /\ UNCHANGED <<userVars, instance, modsWatcher, watchers>>

\* A mount whose body starts without the key.
MountStartUnguarded(i) ==
  /\ i \in DOMAIN mounts
  /\ mounts[i].pc = "queued"
  /\ watchers' = CloseModsWatcher
  /\ mounts' = [mounts EXCEPT ![i].pc = "awaiting"]
  /\ UNCHANGED <<userVars, instance, modsWatcher, path>>

\* The body of mount starts, up to its first await: the watcher is closed.
MountStart(i) ==
  /\ i = MountHead
  /\ mounts[i].pc = "queued"
  /\ watchers' = CloseModsWatcher
  /\ mounts' = [mounts EXCEPT ![i].pc = "awaiting"]
  /\ UNCHANGED <<userVars, instance, modsWatcher, path>>

\* ensureDir, whenReady and scanMods settled: the state gets the instance and
\* its mods, and a watcher on the directory is opened and kept; a rejection
\* ends the call before either, a throw of watch after the first.
MountSettle(i) ==
  /\ i \in DOMAIN mounts
  /\ mounts[i].pc = "awaiting"
  /\ \E r \in MountOutcomes :
       /\ mounts' = [mounts EXCEPT ![i].pc = IF r = "ok" THEN "done" ELSE "failed"]
       /\ instance' = IF r = "error" THEN instance ELSE mounts[i].path
       /\ IF r = "ok"
            THEN /\ watchers' = Append(watchers, [path |-> mounts[i].path, open |-> TRUE])
                 /\ modsWatcher' = Len(watchers) + 1
            ELSE UNCHANGED <<watchers, modsWatcher>>
  /\ UNCHANGED <<userVars, path>>

\* Overlapping mounts, refreshes and instance selections.
NextMods ==
  \/ MountCall \/ RefreshCall \/ InstanceSelect
  \/ \E i \in 1..MaxMounts : MountStart(i)
  \/ \E i \in 1..MaxMounts : MountSettle(i)

SpecMods == Init /\ [][NextMods]_vars

\* Every mount called has ended.
MountsEnded == \A i \in DOMAIN mounts : mounts[i].pc \in {"done", "failed"}

\* C33: whatever mounts and refreshes overlap, at most one watcher is open,
\* and when every mount has ended and the last one called has completed, the
\* state's instance is its instance and the open watcher is the one kept,
\* on its instance.
C33_OneWatcherOfLastMount ==
  /\ Cardinality(OpenWatchers) <= 1
  /\ (mounts # << >> /\ MountsEnded /\ mounts[Len(mounts)].pc = "done")
       => /\ instance = mounts[Len(mounts)].path
          /\ OpenWatchers = {modsWatcher}
          /\ watchers[modsWatcher].path = mounts[Len(mounts)].path

\* Every mount has ended, the first two of them completed, on different
\* instances, and the watcher the first one opened is closed.
C33_Witness ==
  /\ Len(mounts) >= 2 /\ MountsEnded
  /\ mounts[1].pc = "done" /\ mounts[2].pc = "done"
  /\ mounts[1].path # mounts[2].path
  /\ Len(watchers) >= 2 /\ ~watchers[1].open

\* ------------------------------------------------------- every operation

\* Every operation of the two services after their start, the disk with
\* writes that fail, and the file store's caller.
Next ==
  \/ LoginSteps \/ RefreshSteps \/ SelectSteps \/ SkinSteps \/ RemoveSteps
  \/ ProfileSteps \/ ReturnSteps \/ DiskSteps
  \/ EndpointSteps \/ RegisterAccountSystem
  \/ \E p \in Procs : LoginAnyService(p)
  \/ \E p \in Procs : SelectUserMalformed(p) \/ UploadSkinMalformed(p)
  \/ \E p \in Procs : RemoveUserProfileMalformed(p) \/ SelectGameProfileCall(p)
  \/ StoreWriteCall \/ StoreEnsureFile \/ StoreWriteFile
  \/ StoreReadCall \/ StoreReadMissing \/ StoreReadCopy \/ StoreReadFile
  \/ WriteEnsureFails \/ WriteFileFails
  \/ NextMods

Spec == Init /\ [][Next]_vars

====
